---- MODULE Spec2Model ----
(***************************************************************************)
(* The note translation pipeline of obsidian-translate-mcp-server:         *)
(* TranslateTool.execute (src/src/tools/translate.ts) driving              *)
(* FileSystemHelper (utils/file-system.ts, kept as src/unnamed/part_000)   *)
(* and TranslationService.translateContent (src/src/utils/translation.ts). *)
(*                                                                         *)
(* Strings are sequences of one-character strings, so that path and regex  *)
(* operations are computed character by character.  A file's content is a  *)
(* sequence of tokens (a front-matter block or a piece of text).           *)
(* Time is counted in clock ticks, DayTicks of them to the day.             *)
(***************************************************************************)
EXTENDS Integers, Sequences, FiniteSets, TLC

\* ---------------------------------------------------------------- bounds
\* the latest reading of the clock
MaxClock == 3
\* clock ticks in one day
DayTicks == 1
\* the longest list of addresses given to executeBatch
MaxBatch == 3
\* the longest list of contents given to translateBatch
MaxContents == 4
\* the longest body given to protectCodeBlocks
MaxBody == 5

\* ------------------------------------------------------ character strings
Range(s) == {s[i] : i \in DOMAIN s}

\* s.includes(sub)
Includes(s, sub) ==
  \E i \in 0..(Len(s) - Len(sub)) : SubSeq(s, i + 1, i + Len(sub)) = sub

\* s.endsWith(suf)
EndsWith(s, suf) ==
  /\ Len(s) >= Len(suf)
  /\ SubSeq(s, Len(s) - Len(suf) + 1, Len(s)) = suf

\* index of the last occurrence of character c in s, 0 when absent
LastIndexOf(s, c) ==
  IF \E i \in DOMAIN s : s[i] = c
    THEN CHOOSE i \in DOMAIN s : s[i] = c /\ \A j \in (i + 1)..Len(s) : s[j] # c
    ELSE 0

\* s.split('/'): the segments between separators, empty ones included
RECURSIVE Split(_)
Split(s) ==
  IF \A i \in DOMAIN s : s[i] # "/"
    THEN <<s>>
    ELSE LET k == CHOOSE i \in DOMAIN s : s[i] = "/" /\ \A j \in 1..(i - 1) : s[j] # "/"
         IN  <<SubSeq(s, 1, k - 1)>> \o Split(SubSeq(s, k + 1, Len(s)))

\* segs.join('/')
RECURSIVE JoinSegs(_)
JoinSegs(segs) ==
  IF segs = <<>> THEN <<>>
  ELSE IF Len(segs) = 1 THEN segs[1]
  ELSE segs[1] \o <<"/">> \o JoinSegs(Tail(segs))

\* Number.prototype.toString for a natural number
Digit(n) == <<"0", "1", "2", "3", "4", "5", "6", "7", "8", "9">>[n + 1]

RECURSIVE ToStr(_)
ToStr(n) == IF n < 10 THEN <<Digit(n)>> ELSE ToStr(n \div 10) \o <<Digit(n % 10)>>

\* ------------------------------------------------------------ node 'path'
\* path.normalize: '' and '.' segments dropped, 'x/..' resolved, '..' at the
\* root of an absolute path dropped
RECURSIVE NormSegs(_, _, _)
NormSegs(segs, acc, abs) ==
  IF segs = <<>> THEN acc
  ELSE LET h == Head(segs) IN
       IF h = <<>> \/ h = <<".">> THEN NormSegs(Tail(segs), acc, abs)
       ELSE IF h = <<".", ".">> /\ acc # <<>> /\ acc[Len(acc)] # <<".", ".">>
         THEN NormSegs(Tail(segs), SubSeq(acc, 1, Len(acc) - 1), abs)
       ELSE IF h = <<".", ".">> /\ acc = <<>> /\ abs
         THEN NormSegs(Tail(segs), acc, abs)
       ELSE NormSegs(Tail(segs), Append(acc, h), abs)

normalize(p) ==
  LET abs == p # <<>> /\ p[1] = "/"
      body == JoinSegs(NormSegs(Split(p), <<>>, abs))
  IN  IF abs THEN <<"/">> \o body
      ELSE IF body = <<>> THEN <<".">> ELSE body

\* path.join(a, b)
join(a, b) ==
  IF a = <<>> THEN normalize(b)
  ELSE IF b = <<>> THEN normalize(a)
  ELSE normalize(a \o <<"/">> \o b)

\* path.dirname(p): '.' for a bare file name
dirname(p) ==
  LET k == LastIndexOf(p, "/") IN
  IF k = 0 THEN <<".">> ELSE IF k = 1 THEN <<"/">> ELSE SubSeq(p, 1, k - 1)

\* path.basename(p)
lastSegment(p) == SubSeq(p, LastIndexOf(p, "/") + 1, Len(p))

\* path.extname(p): from the last '.' of the base name, '' when there is none
\* or when the only '.' is the first character
extname(p) ==
  LET b == lastSegment(p)
      k == LastIndexOf(b, ".")
  IN  IF k <= 1 THEN <<>> ELSE SubSeq(b, k, Len(b))

\* path.basename(p, ext)
basename(p, ext) ==
  LET b == lastSegment(p) IN
  IF ext # <<>> /\ b # ext /\ EndsWith(b, ext)
    THEN SubSeq(b, 1, Len(b) - Len(ext))
    ELSE b

\* ---------------------------------------------------- document contents
\* A content is a sequence of tokens: a front-matter block (k = "fm", its
\* key-value data in fm) or a piece of text (k = "text", the text in s).
EmptyData == [x \in {} |-> ""]
Txt(t) == [k |-> "text", s |-> t, fm |-> EmptyData]
FmBlock(d) == [k |-> "fm", s |-> "", fm |-> d]
Newline == Txt("\n")

\* gray-matter matter(str): a leading front-matter block is split off and
\* parsed, the rest is the body
matter(str) ==
  IF str # <<>> /\ str[1].k = "fm"
    THEN [data |-> str[1].fm, content |-> Tail(str)]
    ELSE [data |-> EmptyData, content |-> str]

\* only a body of length 0 taken for blank
IsBlank_emptyOnly(body) == body = <<>>

\* String.prototype.trim() === '' on a body
IsBlank(body) == \A i \in DOMAIN body : body[i].k = "text" /\ body[i].s \in {"", " ", "\n"}

\* { ...a, ...b }
Spread(a, b) ==
  [x \in (DOMAIN a) \cup (DOMAIN b) |-> IF x \in DOMAIN b THEN b[x] ELSE a[x]]

\* gray-matter's newline(str): a line feed is added unless str ends with one
newline(str) ==
  IF str # <<>> /\ str[Len(str)] = Newline THEN str ELSE Append(str, Newline)

\* gray-matter matter.stringify(str, data): str is parsed again, its own
\* front matter is merged under data, and the body is newline-terminated
stringify(str, data) ==
  LET file == matter(str)
      merged == Spread(file.data, data)
  IN  (IF DOMAIN merged = {} THEN <<>> ELSE <<FmBlock(merged)>>) \o newline(file.content)

\* ------------------------------------------------------------- ErrorCode
INVALID_URL == "INVALID_OBSIDIAN_URL"
FILE_NOT_FOUND == "FILE_NOT_FOUND"
VAULT_MISMATCH == "VAULT_MISMATCH"
TRANSLATION_FAILED == "TRANSLATION_FAILED"
BACKUP_FAILED == "BACKUP_FAILED"
PERMISSION_DENIED == "PERMISSION_DENIED"
INVALID_PATH == "INVALID_PATH"

\* new Error(`${code}: ${msg}`)
Error(code, msg) == [code |-> code, msg |-> msg]
NoError == Error("", "")

\* ------------------------------------------- ObsidianUrlParser (locator)
\* utils/obsidian-url.ts is not part of the sources at hand; the three
\* operations follow section 4.1 of the specification.  An address is the
\* record of its URL components; an absent query parameter is empty.
PercentCode(a, b) ==
  IF <<a, b>> = <<"2", "F">> THEN <<"/">>
  ELSE IF <<a, b>> = <<"2", "E">> THEN <<".">>
  ELSE IF <<a, b>> = <<"5", "C">> THEN <<"\\">>
  ELSE <<"%", a, b>>

RECURSIVE PercentDecode(_)
PercentDecode(s) ==
  IF s = <<>> THEN <<>>
  ELSE IF s[1] = "%" /\ Len(s) >= 3
    THEN PercentCode(s[2], s[3]) \o PercentDecode(SubSeq(s, 4, Len(s)))
  ELSE <<s[1]>> \o PercentDecode(Tail(s))

ForwardSlashes(s) == [i \in DOMAIN s |-> IF s[i] = "\\" THEN "/" ELSE s[i]]

parse(url) ==
  IF url.scheme # "obsidian" \/ url.action # "open" \/ url.vault = "" \/ url.file = <<>>
    THEN [ok |-> FALSE, err |-> Error(INVALID_URL, "malformed"), vault |-> "", path |-> <<>>]
    ELSE [ok |-> TRUE, err |-> NoError, vault |-> url.vault,
          path |-> ForwardSlashes(PercentDecode(url.file))]

validateVault(requested, configured) ==
  IF requested # configured THEN Error(VAULT_MISMATCH, "mismatch") ELSE NoError

Letters == {"a", "b", "n", "x", "z", "k", "m", "d", "C"}

validatePath(path) ==
  IF Includes(path, <<".", ".">>) \/ Includes(path, <<"~">>)
    THEN Error(INVALID_PATH, "traversal")
  ELSE IF (path # <<>> /\ path[1] = "/") \/ (Len(path) >= 2 /\ path[1] \in Letters /\ path[2] = ":")
    THEN Error(INVALID_PATH, "absolute")
  ELSE IF \E i \in DOMAIN Split(path) : Split(path)[i] # <<>> /\ Split(path)[i][1] = "."
    THEN Error(INVALID_PATH, "hidden")
  ELSE NoError

\* ---------------------------------------------------------- configuration
vaultPath == <<"/", "v">>
configuredVault == "Main"
RetentionChoices == {0, 1, 2}
DefaultLanguage == "Japanese"
Model == "claude-3-haiku-20240307"
BackupMarker == <<".", "b", "a", "c", "k", "u", "p", "-">>

\* ------------------------------------------------------------ input sets
Addr(scheme, action, vault, file) ==
  [scheme |-> scheme, action |-> action, vault |-> vault, file |-> file]

P_a == <<"n", "/", "a", ".", "m", "d">>
P_b == <<"b", ".", "m", "d">>
P_old == <<"n", "/", "a", ".", "b", "a", "c", "k", "u", "p", "-", "0", ".", "m", "d">>
P_new == <<"n", "/", "a", ".", "b", "a", "c", "k", "u", "p", "-", "1", ".", "m", "d">>
P_missing == <<"n", "/", "z", ".", "m", "d">>
P_enc == <<"n", "%", "2", "F", "a", ".", "m", "d">>
P_bslash == <<"n", "\\", "a", ".", "m", "d">>
P_dotdot == <<".", ".", "/", "x", ".", "m", "d">>
P_encdots == <<"%", "2", "E", "%", "2", "E", "/", "x", ".", "m", "d">>
P_home == <<"~", "/", "x", ".", "m", "d">>
P_abs == <<"/", "x", ".", "m", "d">>
P_drive == <<"C", ":", "/", "x", ".", "m", "d">>
P_hidden == <<"n", "/", ".", "x", ".", "m", "d">>
P_dir == <<"n", "/", "k", ".", "b", "a", "c", "k", "u", "p", "-", "0">>

Urls ==
  {Addr("obsidian", "open", "Main", f) :
     f \in {P_a, P_b, P_old, P_missing, P_enc, P_bslash, P_dotdot, P_encdots,
            P_home, P_abs, P_drive, P_hidden}}
  \cup {Addr("obsidian", "open", "Other", P_a), Addr("http", "open", "Main", P_a),
        Addr("obsidian", "new", "Main", P_a), Addr("obsidian", "open", "", P_a),
        Addr("obsidian", "open", "Main", <<>>)}

\* mode: '' stands for an absent mode, 'bogus' for a value outside the enum
Modes == {"", "replace", "append", "parallel", "bogus"}
Languages == {"", "French"}

Requests == [url : Urls, targetLanguage : Languages, mode : Modes]
NoRequest == [url |-> Addr("", "", "", <<>>), targetLanguage |-> "", mode |-> ""]

Hello == <<Txt("Hello")>>
Hallo == <<Txt("Hallo")>>
Bonjour == <<Txt("Bonjour")>>
OldRecord == [date |-> <<"0">>, target_language |-> "German", model |-> Model]
DocA == <<FmBlock([title |-> "T"])>> \o Hello
DocB == <<FmBlock([title |-> "T", translated |-> OldRecord]), Txt(" "), Newline>>
\* a metadata block and no body; an empty document; nothing but white space
DocE == <<FmBlock([title |-> "T"])>>
Empty == <<>>
Blank == <<Txt(" "), Newline>>
\* an inline code region (the backtick is written ' here), and a document
\* holding one after some prose, with the record of an earlier translation in
\* its front matter
Code == Txt("'x'")
DocC == <<FmBlock([title |-> "T", translated |-> OldRecord]), Txt("Hi "), Code>>

\* response of messages.create: a rejection, or a sequence of typed segments
TextSeg(t) == [type |-> "text", text |-> t]
ToolSeg == [type |-> "tool_use", text |-> <<>>]
Response(e, c) == [error |-> e, content |-> c]
\* a text that opens with a front-matter block of its own
FmBonjour == <<FmBlock([tags |-> "x"])>> \o Bonjour
Responses ==
  {Response(TRUE, <<>>), Response(FALSE, <<>>), Response(FALSE, <<TextSeg(Bonjour)>>),
   Response(FALSE, <<ToolSeg, TextSeg(Bonjour)>>), Response(FALSE, <<TextSeg(FmBonjour)>>)}

\* ------------------------------------------------------------------ state
VARIABLES
  fs,                 \* the disk: absolute path -> [kind, content, mtime]
  clock,              \* Date.now()
  retention,          \* FileSystemHelper.backupRetentionDays
  pc,                 \* where each call of execute stands
  req,                \* its TranslationRequest
  path,               \* parsedUrl.path
  originalContent,    \* execute's originalContent
  backupTmp,          \* createBackup's locals: content, timestamp, backupPath
  backupInfo,         \* execute's backupInfo
  translatedContent,  \* execute's translatedContent
  todo,               \* cleanupOldBackups: the entries still to visit
  cutoff,             \* cleanupOldBackups: cutoffDate
  err,                \* the error execute has thrown
  result,             \* the TranslationResult execute has returned
  ops,                \* the filesystem and external calls the run has made
  pre,                \* the disk when the run started
  faults,             \* whether a filesystem call may fail on a healthy disk
  batch,              \* the call of executeBatch: urls, position, results
  tb,                 \* the call of translateBatch: contents, calls, results
  guard,              \* the call of protectCodeBlocks and restoreCodeBlocks
  note                \* the call of a NotesTool operation made by each run

vars == <<fs, clock, retention, pc, req, path, originalContent, backupTmp,
          backupInfo, translatedContent, todo, cutoff, err, result, ops, pre,
          faults, batch, tb, guard, note>>

Runs == {"r1"}

File(c, t) == [kind |-> "file", content |-> c, mtime |-> t]
Dir(t) == [kind |-> "dir", content |-> <<>>, mtime |-> t]

getAbsolutePath(relativePath) == join(vaultPath, relativePath)

NoTmp == [content |-> <<>>, timestamp |-> 0, backupPath |-> <<>>]
NoBackup == [originalPath |-> <<>>, backupPath |-> <<>>, timestamp |-> <<>>, size |-> 0]
NoResult == [originalContent |-> <<>>, translatedContent |-> <<>>,
             backupPath |-> <<>>, timestamp |-> <<>>]
\* one call: the function that made it, the primitive, its path, its outcome
Op(by, kind, p, ok) == [by |-> by, op |-> kind, path |-> p, ok |-> ok]

\* no call of executeBatch, no call of translateBatch
NoBatch == [state |-> "idle", urls |-> <<>>, targetLanguage |-> "", i |-> 0, results |-> <<>>]
NoTb == [state |-> "idle", contents |-> <<>>, targetLanguage |-> "", i |-> 0,
         calls |-> <<>>, results |-> <<>>]

\* no call of the code guard; a run that is no call of NotesTool
NoGuard == [state |-> "idle", body |-> <<>>, content |-> <<>>, placeholders |-> <<>>,
            restored |-> <<>>]
NoNote == [op |-> "", path |-> <<>>, content |-> <<>>, mode |-> "", createBackup |-> "",
           final |-> <<>>]

\* the outcomes of the environment for one filesystem call: it goes as the
\* disk has it, or (faults allowed) it fails all the same
FaultChoices == IF faults THEN BOOLEAN ELSE {FALSE}

InitFs ==
  (getAbsolutePath(P_a) :> File(DocA, 0)) @@ (getAbsolutePath(P_b) :> File(DocB, 0))
  @@ (getAbsolutePath(P_old) :> File(Hallo, 0)) @@ (getAbsolutePath(P_new) :> File(Hello, 1))
  @@ (getAbsolutePath(P_dir) :> Dir(0))

Init ==
  /\ fs = InitFs
  /\ clock = 2
  /\ retention \in RetentionChoices
  /\ pc = [r \in Runs |-> "Idle"]
  /\ req = [r \in Runs |-> NoRequest]
  /\ path = [r \in Runs |-> <<>>]
  /\ originalContent = [r \in Runs |-> <<>>]
  /\ backupTmp = [r \in Runs |-> NoTmp]
  /\ backupInfo = [r \in Runs |-> NoBackup]
  /\ translatedContent = [r \in Runs |-> <<>>]
  /\ todo = [r \in Runs |-> {}]
  /\ cutoff = [r \in Runs |-> 0]
  /\ err = [r \in Runs |-> NoError]
  /\ result = [r \in Runs |-> NoResult]
  /\ ops = [r \in Runs |-> <<>>]
  /\ pre = [r \in Runs |-> InitFs]
  /\ faults = TRUE
  /\ batch = NoBatch
  /\ tb = NoTb
  /\ guard = NoGuard
  /\ note = [r \in Runs |-> NoNote]

\* ------------------------------------------------------- disk primitives
IsFile(f, p) == p \in DOMAIN f /\ f[p].kind = "file"
IsDir(f, p) ==
  \/ p = vaultPath
  \/ p \in DOMAIN f /\ f[p].kind = "dir"
  \/ \E q \in DOMAIN f : dirname(q) = p

\* fs.writeFile: the file holds exactly content, its mtime is the time of writing
WriteTo(f, p, content, now) ==
  [q \in (DOMAIN f) \cup {p} |-> IF q = p THEN File(content, now) ELSE f[q]]

\* what a write of content that fails under way may leave in the file
Partial(content) == {SubSeq(content, 1, k) : k \in 0..(Len(content) - 1)} \cup {<<>>}

\* fs.unlink
Unlink(f, p) == [q \in (DOMAIN f) \ {p} |-> f[q]]

\* fs.readdir(dir, {withFileTypes: true})
Readdir(f, d) == {[name |-> lastSegment(q), isFile |-> f[q].kind = "file"] :
                    q \in {x \in DOMAIN f : dirname(x) = d}}

\* ------------------------------------------------- TranslateTool.execute
\* Validate without the path-safety check
Validate_noPathCheck(q) ==
  LET parsedUrl == parse(q.url) IN
  IF ~parsedUrl.ok THEN parsedUrl.err
  ELSE validateVault(parsedUrl.vault, configuredVault)

\* lines 62-68: parse, validateVault, validatePath; the first error is thrown
Validate(q) ==
  LET parsedUrl == parse(q.url) IN
  IF ~parsedUrl.ok THEN parsedUrl.err
  ELSE IF validateVault(parsedUrl.vault, configuredVault) # NoError
    THEN validateVault(parsedUrl.vault, configuredVault)
  ELSE validatePath(parsedUrl.path)

\* an absent mode taken for 'append'
ModeOf_defaultAppend(q) == IF q.mode = "" THEN "append" ELSE q.mode

\* request.mode || 'replace'
ModeOf(q) == IF q.mode = "" THEN "replace" ELSE q.mode

\* request.targetLanguage || '日本語'
LanguageOf(q) == IF q.targetLanguage = "" THEN DefaultLanguage ELSE q.targetLanguage

Fail(r, e) ==
  /\ pc' = [pc EXCEPT ![r] = "Failed"]
  /\ err' = [err EXCEPT ![r] = e]

\* The call of execute with request q, up to its first await: the request is
\* validated and fs.access is issued.
execute_call(r, q) ==
  /\ pc[r] = "Idle"
  /\ req' = [req EXCEPT ![r] = q]
  /\ pre' = [pre EXCEPT ![r] = fs]
  /\ IF Validate(q) # NoError
       THEN /\ Fail(r, Validate(q))
            /\ UNCHANGED path
       ELSE /\ pc' = [pc EXCEPT ![r] = "Locating"]
            /\ path' = [path EXCEPT ![r] = parse(q.url).path]
            /\ UNCHANGED err
  /\ UNCHANGED <<fs, clock, retention, originalContent, backupTmp, backupInfo,
                 translatedContent, todo, cutoff, result, ops>>

\* execute called by the tool handler, with any request
execute(r) ==
  /\ \E q \in Requests : execute_call(r, q)
  /\ UNCHANGED <<guard, note, faults, batch, tb>>

\* the absent target reported under another error code
FileNotFound_wrongCode == Error(INVALID_PATH, "not found")

\* line 72: the error thrown when exists() answers false
FileNotFound == Error(FILE_NOT_FOUND, "not found")

\* FileSystemHelper.exists: fs.access answers; any error means 'absent'
exists(r) ==
  /\ pc[r] = "Locating"
  /\ \E fault \in FaultChoices :
       LET p == getAbsolutePath(path[r])
           found == (p \in DOMAIN fs) /\ ~fault
       IN  /\ ops' = [ops EXCEPT ![r] = Append(@, Op("exists", "access", p, found))]
           /\ IF found
                THEN pc' = [pc EXCEPT ![r] = "Reading"] /\ UNCHANGED err
                ELSE Fail(r, FileNotFound)
  /\ UNCHANGED <<guard, note, faults, batch, tb, fs, clock, retention, req, path, originalContent, backupTmp,
                 backupInfo, translatedContent, todo, cutoff, result, pre>>

\* readFile followed directly by the translation, createBackup left out
readFile_noBackup(r) ==
  /\ pc[r] = "Reading"
  /\ \E fault \in FaultChoices :
       LET p == getAbsolutePath(path[r])
           ok == IsFile(fs, p) /\ ~fault
       IN  /\ ops' = [ops EXCEPT ![r] = Append(@, Op("readFile", "read", p, ok))]
           /\ IF ok
                THEN /\ originalContent' = [originalContent EXCEPT ![r] = fs[p].content]
                     /\ pc' = [pc EXCEPT ![r] = "Translating"]
                     /\ UNCHANGED err
                ELSE /\ Fail(r, Error(FILE_NOT_FOUND, "cannot read"))
                     /\ UNCHANGED originalContent
  /\ UNCHANGED <<guard, note, faults, batch, tb, fs, clock, retention, req, path, backupTmp, backupInfo,
                 translatedContent, todo, cutoff, result, pre>>

\* FileSystemHelper.readFile
readFile(r) ==
  /\ pc[r] = "Reading"
  /\ \E fault \in FaultChoices :
       LET p == getAbsolutePath(path[r])
           ok == IsFile(fs, p) /\ ~fault
       IN  /\ ops' = [ops EXCEPT ![r] = Append(@, Op("readFile", "read", p, ok))]
           /\ IF ok
                THEN /\ originalContent' = [originalContent EXCEPT ![r] = fs[p].content]
                     /\ pc' = [pc EXCEPT ![r] = "BackingUp"]
                     /\ UNCHANGED err
                ELSE /\ Fail(r, Error(FILE_NOT_FOUND, "cannot read"))
                     /\ UNCHANGED originalContent
  /\ UNCHANGED <<guard, note, faults, batch, tb, fs, clock, retention, req, path, backupTmp, backupInfo,
                 translatedContent, todo, cutoff, result, pre>>

\* ------------------------------------------ FileSystemHelper.createBackup
\* the backup named without the extension of the source
BackupPathOf_noExt(filePath, timestamp) ==
  LET ext == extname(filePath)
      baseName == basename(filePath, ext)
      dir == dirname(filePath)
  IN  join(dir, baseName \o BackupMarker \o ToStr(timestamp))

\* `${baseName}.backup-${timestamp}${ext}` joined to dirname(filePath)
BackupPathOf(filePath, timestamp) ==
  LET ext == extname(filePath)
      baseName == basename(filePath, ext)
      dir == dirname(filePath)
  IN  join(dir, baseName \o BackupMarker \o ToStr(timestamp) \o ext)

\* new Date(timestamp).toISOString()
toISOString(t) == <<"T">> \o ToStr(t)

\* lines 76-87: the source is read, the clock is read, the name is derived
createBackup_read(r) ==
  /\ pc[r] = "BackingUp"
  /\ \E fault \in FaultChoices :
       LET p == getAbsolutePath(path[r])
           ok == IsFile(fs, p) /\ ~fault
       IN  /\ ops' = [ops EXCEPT ![r] = Append(@, Op("createBackup", "read", p, ok))]
           /\ IF ok
                THEN /\ backupTmp' = [backupTmp EXCEPT ![r] =
                           [content |-> fs[p].content, timestamp |-> clock,
                            backupPath |-> BackupPathOf(path[r], clock)]]
                     /\ pc' = [pc EXCEPT ![r] = "BackupWrite"]
                     /\ UNCHANGED err
                ELSE /\ Fail(r, Error(BACKUP_FAILED, "cannot create backup"))
                     /\ UNCHANGED backupTmp
  /\ UNCHANGED <<guard, note, faults, batch, tb, fs, clock, retention, req, path, originalContent, backupInfo,
                 translatedContent, todo, cutoff, result, pre>>

\* createBackup_write whose failure is caught and not rethrown
createBackup_write_swallow(r) ==
  /\ pc[r] = "BackupWrite"
  /\ \E fault \in FaultChoices :
       LET p == getAbsolutePath(backupTmp[r].backupPath)
           ok == ~fault /\ ~(p \in DOMAIN fs /\ fs[p].kind = "dir")
       IN  IF ok
             THEN /\ fs' = WriteTo(fs, p, <<>>, clock)
                  /\ pc' = [pc EXCEPT ![r] = "BackupWriteData"]
                  /\ UNCHANGED ops
             ELSE /\ ops' = [ops EXCEPT ![r] = Append(@, Op("createBackup", "write", p, FALSE))]
                  /\ pc' = [pc EXCEPT ![r] = "Translating"]
                  /\ UNCHANGED fs
  /\ UNCHANGED <<guard, note, faults, batch, tb, clock, retention, req, path, originalContent, backupTmp,
                 backupInfo, translatedContent, todo, cutoff, err, result, pre>>

\* line 90, fs.writeFile opening the backup file: it is created, or
\* truncated, before any data is written
createBackup_write(r) ==
  /\ pc[r] = "BackupWrite"
  /\ \E fault \in FaultChoices :
       LET p == getAbsolutePath(backupTmp[r].backupPath)
           ok == ~fault /\ ~(p \in DOMAIN fs /\ fs[p].kind = "dir")
       IN  IF ok
             THEN /\ fs' = WriteTo(fs, p, <<>>, clock)
                  /\ pc' = [pc EXCEPT ![r] = "BackupWriteData"]
                  /\ UNCHANGED <<err, ops>>
             ELSE /\ ops' = [ops EXCEPT ![r] = Append(@, Op("createBackup", "write", p, FALSE))]
                  /\ Fail(r, Error(BACKUP_FAILED, "cannot create backup"))
                  /\ UNCHANGED fs
  /\ UNCHANGED <<guard, note, faults, batch, tb, clock, retention, req, path, originalContent, backupTmp,
                 backupInfo, translatedContent, todo, cutoff, result, pre>>

\* line 90, fs.writeFile writing the data: all of it, or on a failure a part
createBackup_writeData(r) ==
  /\ pc[r] = "BackupWriteData"
  /\ \E fault \in FaultChoices :
       LET p == getAbsolutePath(backupTmp[r].backupPath) IN
       /\ ops' = [ops EXCEPT ![r] = Append(@, Op("createBackup", "write", p, ~fault))]
       /\ IF ~fault
            THEN /\ fs' = WriteTo(fs, p, backupTmp[r].content, clock)
                 /\ pc' = [pc EXCEPT ![r] = "BackupStat"]
                 /\ UNCHANGED err
            ELSE /\ \E part \in Partial(backupTmp[r].content) : fs' = WriteTo(fs, p, part, clock)
                 /\ Fail(r, Error(BACKUP_FAILED, "cannot create backup"))
  /\ UNCHANGED <<guard, note, faults, batch, tb, clock, retention, req, path, originalContent, backupTmp,
                 backupInfo, translatedContent, todo, cutoff, result, pre>>

\* where createBackup returns to: execute (translate.ts:79) or updateNote
\* (notes.ts:215)
AfterBackup(r) == IF note[r] = NoNote THEN "Translating" ELSE "UpdateReading"

\* lines 92-99: the backup file is stat'ed and the BackupInfo returned
createBackup_stat(r) ==
  /\ pc[r] = "BackupStat"
  /\ \E fault \in FaultChoices :
       LET p == getAbsolutePath(backupTmp[r].backupPath)
           ok == (p \in DOMAIN fs) /\ ~fault
       IN  /\ ops' = [ops EXCEPT ![r] = Append(@, Op("createBackup", "stat", p, ok))]
           /\ IF ok
                THEN /\ backupInfo' = [backupInfo EXCEPT ![r] =
                           [originalPath |-> path[r],
                            backupPath |-> backupTmp[r].backupPath,
                            timestamp |-> toISOString(backupTmp[r].timestamp),
                            size |-> Len(fs[p].content)]]
                     /\ pc' = [pc EXCEPT ![r] = AfterBackup(r)]
                     /\ UNCHANGED err
                ELSE /\ Fail(r, Error(BACKUP_FAILED, "cannot create backup"))
                     /\ UNCHANGED backupInfo
  /\ UNCHANGED <<guard, note, faults, batch, tb, fs, clock, retention, req, path, originalContent, backupTmp,
                 translatedContent, todo, cutoff, result, pre>>

\* ------------------------------------ TranslationService.translateContent
\* lines 47-49: response.content[0] decides
TranslatedBody(content, bodyContent) ==
  IF content[1].type = "text" THEN content[1].text ELSE bodyContent

\* lines 52-59
TranslationRecord(now, targetLanguage) ==
  [date |-> toISOString(now), target_language |-> targetLanguage, model |-> Model]

UpdatedFrontmatter(frontmatter, now, targetLanguage) ==
  Spread(frontmatter, [translated |-> TranslationRecord(now, targetLanguage)])

\* lines 47-64, once the response is there
ComposeTranslation(content, response, now, targetLanguage) ==
  LET parsed == matter(content) IN
  stringify(TranslatedBody(response, parsed.content),
            UpdatedFrontmatter(parsed.data, now, targetLanguage))

\* lines 76-91: the instructions for targetLanguage, with the text to
\* translate embedded as it is
createTranslationPrompt(content, targetLanguage) ==
  <<Txt("translate to"), Txt(targetLanguage), Txt("rules")>> \o content \o <<Txt("only")>>

\* translateContent after which a blank document is not written back
translateContent_skipWrite(r) ==
  /\ pc[r] = "Translating"
  /\ IF IsBlank(matter(originalContent[r]).content)
       THEN /\ translatedContent' = [translatedContent EXCEPT ![r] = originalContent[r]]
            /\ pc' = [pc EXCEPT ![r] = "Pruning"]
       ELSE /\ pc' = [pc EXCEPT ![r] = "AwaitApi"]
            /\ UNCHANGED <<translatedContent, ops>>
  /\ UNCHANGED <<guard, note, faults, batch, tb, fs, clock, retention, req, path, originalContent, backupTmp,
                 backupInfo, todo, cutoff, err, result, ops, pre>>

\* lines 26-45: front matter is split off; a blank body is returned as it is,
\* otherwise messages.create is called
translateContent(r) ==
  /\ pc[r] = "Translating"
  /\ IF IsBlank(matter(originalContent[r]).content)
       THEN /\ translatedContent' = [translatedContent EXCEPT ![r] = originalContent[r]]
            /\ pc' = [pc EXCEPT ![r] = "Applying"]
       ELSE /\ pc' = [pc EXCEPT ![r] = "AwaitApi"]
            /\ UNCHANGED <<translatedContent, ops>>
  /\ UNCHANGED <<guard, note, faults, batch, tb, fs, clock, retention, req, path, originalContent, backupTmp,
                 backupInfo, todo, cutoff, err, result, ops, pre>>

\* messages_create whose rejection falls back to the original content
messages_create_fallback(r) ==
  /\ pc[r] = "AwaitApi"
  /\ \E response \in Responses :
       /\ ops' = [ops EXCEPT ![r] =
              Append(@, Op("translateContent", "messages.create", <<>>, ~response.error))]
       /\ pc' = [pc EXCEPT ![r] = "Applying"]
       /\ translatedContent' = [translatedContent EXCEPT ![r] =
            IF response.error \/ response.content = <<>>
              THEN originalContent[r]
              ELSE ComposeTranslation(originalContent[r], response.content, clock,
                                      LanguageOf(req[r]))]
  /\ UNCHANGED <<guard, note, faults, batch, tb, fs, clock, retention, req, path, originalContent, backupTmp,
                 backupInfo, todo, cutoff, err, result, pre>>

\* messages.create settles: a rejection, or a response whose first segment is
\* read (reading the type of a missing first segment throws); every throw is
\* rethrown as TRANSLATION_FAILED (lines 65-67) and passed on by execute
messages_create(r) ==
  /\ pc[r] = "AwaitApi"
  /\ \E response \in Responses :
       /\ ops' = [ops EXCEPT ![r] =
              Append(@, Op("translateContent", "messages.create", <<>>, ~response.error))]
       /\ IF response.error \/ response.content = <<>>
            THEN /\ Fail(r, Error(TRANSLATION_FAILED, "translation failed"))
                 /\ UNCHANGED translatedContent
            ELSE /\ translatedContent' = [translatedContent EXCEPT ![r] =
                       ComposeTranslation(originalContent[r], response.content, clock,
                                          LanguageOf(req[r]))]
                 /\ pc' = [pc EXCEPT ![r] = "Applying"]
                 /\ UNCHANGED err
  /\ UNCHANGED <<guard, note, faults, batch, tb, fs, clock, retention, req, path, originalContent, backupTmp,
                 backupInfo, todo, cutoff, result, pre>>

\* --------------------------------------- TranslateTool.updateFileByMode
\* the literal of line 131 (backslash-n sequences, not line feeds)
Separator == <<Txt("\\n\\n---\\n\\n# translated\\n\\n")>>

\* the translation put before the original
appendedContent_swapped(original, translated) == translated \o Separator \o original

appendedContent(original, translated) == original \o Separator \o translated

\* filePath.replace(/\\.md$/, '.ja.md'): the pattern is a backslash, any
\* character but a line terminator, then 'md' at the end of the string
parallelPath(filePath) ==
  LET n == Len(filePath) IN
  IF n >= 4 /\ filePath[n - 3] = "\\" /\ filePath[n - 2] # "\n"
     /\ filePath[n - 1] = "m" /\ filePath[n] = "d"
    THEN SubSeq(filePath, 1, n - 4) \o <<".", "j", "a", ".", "m", "d">>
    ELSE filePath

\* a mode outside the enum accepted by the switch
KnownModes_open == {"replace", "append", "parallel", "bogus"}

KnownModes == {"replace", "append", "parallel"}

\* the path and the content the switch of lines 125-143 writes
WritePathOf(filePath, mode) ==
  IF mode = "parallel" THEN parallelPath(filePath) ELSE filePath

WriteContentOf(original, translated, mode) ==
  IF mode = "append" THEN appendedContent(original, translated) ELSE translated

\* the switch, and fs.writeFile opening the file: it is created, or truncated,
\* before any data is written
updateFileByMode(r) ==
  /\ pc[r] = "Applying"
  /\ LET mode == ModeOf(req[r]) IN
     IF mode \notin KnownModes
       THEN /\ Fail(r, Error(TRANSLATION_FAILED, "Invalid mode"))
            /\ UNCHANGED <<fs, ops>>
       ELSE \E fault \in FaultChoices :
              LET p == getAbsolutePath(WritePathOf(path[r], mode))
                  ok == ~fault /\ ~(p \in DOMAIN fs /\ fs[p].kind = "dir")
              IN  IF ok
                    THEN /\ fs' = WriteTo(fs, p, <<>>, clock)
                         /\ pc' = [pc EXCEPT ![r] = "ApplyingData"]
                         /\ UNCHANGED <<err, ops>>
                    ELSE /\ ops' = [ops EXCEPT ![r] = Append(@, Op("writeFile", "write", p, FALSE))]
                         /\ Fail(r, Error(PERMISSION_DENIED, "cannot write"))
                         /\ UNCHANGED fs
  /\ UNCHANGED <<guard, note, faults, batch, tb, clock, retention, req, path, originalContent, backupTmp,
                 backupInfo, translatedContent, todo, cutoff, result, pre>>

\* fs.writeFile writing the data: all of it, or on a failure a part
updateFileByMode_writeData(r) ==
  /\ pc[r] = "ApplyingData"
  /\ \E fault \in FaultChoices :
       LET mode == ModeOf(req[r])
           p == getAbsolutePath(WritePathOf(path[r], mode))
           content == WriteContentOf(originalContent[r], translatedContent[r], mode)
       IN  /\ ops' = [ops EXCEPT ![r] = Append(@, Op("writeFile", "write", p, ~fault))]
           /\ IF ~fault
                THEN /\ fs' = WriteTo(fs, p, content, clock)
                     /\ pc' = [pc EXCEPT ![r] = "Pruning"]
                     /\ UNCHANGED err
                ELSE /\ \E part \in Partial(content) : fs' = WriteTo(fs, p, part, clock)
                     /\ Fail(r, Error(PERMISSION_DENIED, "cannot write"))
  /\ UNCHANGED <<guard, note, faults, batch, tb, clock, retention, req, path, originalContent, backupTmp,
                 backupInfo, translatedContent, todo, cutoff, result, pre>>

\* ------------------------------------- FileSystemHelper.cleanupOldBackups
\* parsedUrl.path.split('/').slice(0, -1).join('/')
CleanupDirectory(filePath) ==
  LET segs == Split(filePath) IN JoinSegs(SubSeq(segs, 1, Len(segs) - 1))

\* file.isFile() && file.name.includes('.backup-')
IsBackupEntry(entry) == entry.isFile /\ Includes(entry.name, BackupMarker)

\* a file modified exactly at the cutoff date counted as expired
IsExpired_inclusive(mtime, cutoffDate) == mtime <= cutoffDate

\* stats.mtime < cutoffDate
IsExpired(mtime, cutoffDate) == mtime < cutoffDate

\* cleanupOldBackups_readdir whose failure is rethrown to execute
cleanupOldBackups_readdir_rethrow(r) ==
  /\ pc[r] = "Pruning"
  /\ \E fault \in FaultChoices :
       LET dirPath == getAbsolutePath(CleanupDirectory(path[r]))
           ok == IsDir(fs, dirPath) /\ ~fault
       IN  /\ ops' = [ops EXCEPT ![r] = Append(@, Op("cleanupOldBackups", "readdir", dirPath, ok))]
           /\ IF ok
                THEN /\ todo' = [todo EXCEPT ![r] =
                           {e.name : e \in {x \in Readdir(fs, dirPath) : IsBackupEntry(x)}}]
                     /\ cutoff' = [cutoff EXCEPT ![r] = clock - retention * DayTicks]
                     /\ pc' = [pc EXCEPT ![r] = "PruningFiles"]
                     /\ UNCHANGED err
                ELSE /\ Fail(r, Error(PERMISSION_DENIED, "cannot list"))
                     /\ UNCHANGED <<todo, cutoff>>
  /\ UNCHANGED <<guard, note, faults, batch, tb, fs, clock, retention, req, path, originalContent, backupTmp,
                 backupInfo, translatedContent, result, pre>>

\* lines 111-115: the directory is listed and the cutoff date computed; a
\* failure is caught and logged, and nothing is visited
cleanupOldBackups_readdir(r) ==
  /\ pc[r] = "Pruning"
  /\ \E fault \in FaultChoices :
       LET dirPath == getAbsolutePath(CleanupDirectory(path[r]))
           ok == IsDir(fs, dirPath) /\ ~fault
       IN  /\ ops' = [ops EXCEPT ![r] = Append(@, Op("cleanupOldBackups", "readdir", dirPath, ok))]
           /\ IF ok
                THEN /\ todo' = [todo EXCEPT ![r] =
                           {e.name : e \in {x \in Readdir(fs, dirPath) : IsBackupEntry(x)}}]
                     /\ cutoff' = [cutoff EXCEPT ![r] = clock - retention * DayTicks]
                ELSE /\ todo' = [todo EXCEPT ![r] = {}]
                     /\ UNCHANGED cutoff
  /\ pc' = [pc EXCEPT ![r] = "PruningFiles"]
  /\ UNCHANGED <<guard, note, faults, batch, tb, fs, clock, retention, req, path, originalContent, backupTmp,
                 backupInfo, translatedContent, err, result, pre>>

\* lines 117-126, one entry: stat, then unlink when expired; a failure of
\* either leaves the loop (lines 127-130)
cleanupOldBackups_file(r) ==
  /\ pc[r] = "PruningFiles"
  /\ \E name \in todo[r], statFault \in FaultChoices, unlinkFault \in FaultChoices :
       LET filePath == join(getAbsolutePath(CleanupDirectory(path[r])), name)
           statOk == (filePath \in DOMAIN fs) /\ ~statFault
       IN  IF ~statOk
             THEN /\ ops' = [ops EXCEPT ![r] =
                         Append(@, Op("cleanupOldBackups", "stat", filePath, FALSE))]
                  /\ todo' = [todo EXCEPT ![r] = {}]
                  /\ UNCHANGED fs
           ELSE IF ~IsExpired(fs[filePath].mtime, cutoff[r])
             THEN /\ ops' = [ops EXCEPT ![r] =
                         Append(@, Op("cleanupOldBackups", "stat", filePath, TRUE))]
                  /\ todo' = [todo EXCEPT ![r] = @ \ {name}]
                  /\ UNCHANGED fs
           ELSE /\ ops' = [ops EXCEPT ![r] =
                       @ \o <<Op("cleanupOldBackups", "stat", filePath, TRUE),
                              Op("cleanupOldBackups", "unlink", filePath, ~unlinkFault)>>]
                /\ IF unlinkFault
                     THEN todo' = [todo EXCEPT ![r] = {}] /\ UNCHANGED fs
                     ELSE /\ todo' = [todo EXCEPT ![r] = @ \ {name}]
                          /\ fs' = Unlink(fs, filePath)
  /\ UNCHANGED <<guard, note, faults, batch, tb, clock, retention, pc, req, path, originalContent, backupTmp,
                 backupInfo, translatedContent, cutoff, err, result, pre>>

\* lines 98-103: the outcome is returned
execute_return(r) ==
  /\ pc[r] = "PruningFiles"
  /\ todo[r] = {}
  /\ pc' = [pc EXCEPT ![r] = "Done"]
  /\ result' = [result EXCEPT ![r] =
        [originalContent |-> originalContent[r],
         translatedContent |-> translatedContent[r],
         backupPath |-> backupInfo[r].backupPath,
         timestamp |-> backupInfo[r].timestamp]]
  /\ UNCHANGED <<guard, note, faults, batch, tb, fs, clock, retention, req, path, originalContent, backupTmp,
                 backupInfo, translatedContent, todo, cutoff, err, ops, pre>>

\* ------------------------------------- ObsidianMCPServer.mapErrorCode
InvalidParams == "InvalidParams"
InternalError == "InternalError"

\* errorMessage.includes(code): the message of an error opens with its code,
\* the text after it spells no code
MessageIncludes(e, code) == code \in {e.code, e.msg}

\* lines 383-398: the protocol code the handler throws for a caught error
mapErrorCode(e) ==
  IF MessageIncludes(e, INVALID_URL) THEN InvalidParams
  ELSE IF MessageIncludes(e, FILE_NOT_FOUND) THEN InvalidParams
  ELSE IF MessageIncludes(e, VAULT_MISMATCH) THEN InvalidParams
  ELSE IF MessageIncludes(e, PERMISSION_DENIED) THEN InternalError
  ELSE InternalError

\* time passes
Tick ==
  /\ clock < MaxClock
  /\ clock' = clock + 1
  /\ UNCHANGED <<guard, note, faults, batch, tb, fs, retention, pc, req, path, originalContent, backupTmp,
                 backupInfo, translatedContent, todo, cutoff, err, result, ops, pre>>

Next ==
  \/ \E r \in Runs : execute(r)
  \/ \E r \in Runs : exists(r)
  \/ \E r \in Runs : readFile(r)
  \/ \E r \in Runs : createBackup_read(r)
  \/ \E r \in Runs : createBackup_write(r)
  \/ \E r \in Runs : createBackup_writeData(r)
  \/ \E r \in Runs : createBackup_stat(r)
  \/ \E r \in Runs : translateContent(r)
  \/ \E r \in Runs : messages_create(r)
  \/ \E r \in Runs : updateFileByMode(r)
  \/ \E r \in Runs : updateFileByMode_writeData(r)
  \/ \E r \in Runs : cleanupOldBackups_readdir(r)
  \/ \E r \in Runs : cleanupOldBackups_file(r)
  \/ \E r \in Runs : execute_return(r)
  \/ Tick

Spec == Init /\ [][Next]_vars

\* ============================================== the batch operations
\* The runs of a batch are numbered by the position of their address.
Items == 1..MaxBatch

BatchUrls ==
  {Addr("obsidian", "open", "Main", f) : f \in {P_a, P_b, P_missing}}
  \cup {Addr("obsidian", "open", "Other", P_a)}
UrlLists == UNION {[1..n -> BatchUrls] : n \in 0..MaxBatch}

BatchContents == {DocB, DocC, DocE, Empty, Blank}
ContentLists == UNION {[1..n -> BatchContents] : n \in 0..MaxContents}

\* the batch operations are called without a target language
BatchLanguages == {""}

\* targetLanguage: string = '日本語'
LanguageOrDefault(targetLanguage) ==
  IF targetLanguage = "" THEN DefaultLanguage ELSE targetLanguage

\* the disk of the batch operations: two notes, no backup yet
BatchFs ==
  (getAbsolutePath(P_a) :> File(DocA, 0)) @@ (getAbsolutePath(P_b) :> File(DocB, 0))

\* The batch operations are followed on a healthy disk (a filesystem call
\* fails only for what the disk holds) and at one reading of the clock.
BatchInit ==
  /\ fs = BatchFs
  /\ clock = 2
  /\ retention \in RetentionChoices
  /\ pc = [k \in Items |-> "Idle"]
  /\ req = [k \in Items |-> NoRequest]
  /\ path = [k \in Items |-> <<>>]
  /\ originalContent = [k \in Items |-> <<>>]
  /\ backupTmp = [k \in Items |-> NoTmp]
  /\ backupInfo = [k \in Items |-> NoBackup]
  /\ translatedContent = [k \in Items |-> <<>>]
  /\ todo = [k \in Items |-> {}]
  /\ cutoff = [k \in Items |-> 0]
  /\ err = [k \in Items |-> NoError]
  /\ result = [k \in Items |-> NoResult]
  /\ ops = [k \in Items |-> <<>>]
  /\ pre = [k \in Items |-> BatchFs]
  /\ faults = FALSE
  /\ batch = NoBatch
  /\ tb = NoTb
  /\ guard = NoGuard
  /\ note = [k \in Items |-> NoNote]

\* ------------------------------------------- TranslateTool.executeBatch
\* lines 152-156: the call; results is empty and the loop is at the first url
executeBatch_call ==
  /\ batch.state = "idle" /\ tb.state = "idle"
  /\ \E urls \in UrlLists, targetLanguage \in BatchLanguages :
       batch' = [state |-> "running", urls |-> urls,
                 targetLanguage |-> LanguageOrDefault(targetLanguage),
                 i |-> 1, results |-> <<>>]
  /\ UNCHANGED <<fs, clock, retention, pc, req, path, originalContent, backupTmp,
                 backupInfo, translatedContent, todo, cutoff, err, result, ops, pre,
                 faults, tb, guard, note>>

\* lines 158-164: execute is called for the url at hand, in replace mode
executeBatch_execute(k) ==
  /\ batch.state = "running"
  /\ batch.i = k /\ k <= Len(batch.urls)
  /\ execute_call(k, [url |-> batch.urls[k], targetLanguage |-> batch.targetLanguage,
                      mode |-> "replace"])
  /\ UNCHANGED <<guard, note, faults, batch, tb>>

\* the loop left at the first url that fails
executeBatch_settle_abort(k) ==
  /\ batch.state = "running"
  /\ batch.i = k /\ k <= Len(batch.urls)
  /\ pc[k] \in {"Done", "Failed"}
  /\ batch' = IF pc[k] = "Done"
                THEN [batch EXCEPT !.i = k + 1, !.results = Append(@, result[k])]
                ELSE [batch EXCEPT !.i = Len(batch.urls) + 1]
  /\ UNCHANGED <<fs, clock, retention, pc, req, path, originalContent, backupTmp,
                 backupInfo, translatedContent, todo, cutoff, err, result, ops, pre,
                 faults, tb, guard, note>>

\* lines 160-170: the awaited execute has settled; its result is pushed, or
\* its error is logged and nothing is pushed; the loop goes to the next url
executeBatch_settle(k) ==
  /\ batch.state = "running"
  /\ batch.i = k /\ k <= Len(batch.urls)
  /\ pc[k] \in {"Done", "Failed"}
  /\ batch' = IF pc[k] = "Done"
                THEN [batch EXCEPT !.i = k + 1, !.results = Append(@, result[k])]
                ELSE [batch EXCEPT !.i = k + 1]
  /\ UNCHANGED <<fs, clock, retention, pc, req, path, originalContent, backupTmp,
                 backupInfo, translatedContent, todo, cutoff, err, result, ops, pre,
                 faults, tb, guard, note>>

\* line 172: return results
executeBatch_return ==
  /\ batch.state = "running"
  /\ batch.i > Len(batch.urls)
  /\ batch' = [batch EXCEPT !.state = "returned"]
  /\ UNCHANGED <<fs, clock, retention, pc, req, path, originalContent, backupTmp,
                 backupInfo, translatedContent, todo, cutoff, err, result, ops, pre,
                 faults, tb, guard, note>>

\* ------------------------------------ TranslationService.translateBatch
\* every content of the input started at once
batchSize_whole == MaxContents

\* line 148
batchSize == 3

Min(a, b) == IF a < b THEN a ELSE b

\* contents.slice(i, i + batchSize), as positions counted from 1
ChunkAt(i, n) == (i + 1)..Min(i + batchSize, n)

\* a call of translateContent not made yet; response is what messages.create
\* has answered, once it has
NoResponse == Response(FALSE, <<>>)
CallPending == [status |-> "pending", value |-> <<>>, response |-> NoResponse]

\* translateContent(content, targetLanguage) up to its first await: a blank
\* body is returned as it is, otherwise messages.create is in flight
StartCall(content) ==
  IF IsBlank(matter(content).content)
    THEN [status |-> "fulfilled", value |-> content, response |-> NoResponse]
    ELSE [status |-> "inflight", value |-> <<>>, response |-> NoResponse]

\* line 153: batch.map(content => this.translateContent(content, targetLanguage))
StartChunk(calls, contents, i) ==
  [j \in DOMAIN calls |->
     IF j \in ChunkAt(i, Len(contents)) THEN StartCall(contents[j]) ELSE calls[j]]

\* Collect reading the rejected content at its position in the chunk
Collect_chunkIndex(results, calls, contents, i) ==
  results \o [m \in 1..Cardinality(ChunkAt(i, Len(contents))) |->
               IF calls[i + m].status = "fulfilled"
                 THEN calls[i + m].value
                 ELSE contents[m]]

\* lines 159-166: a fulfilled call gives its value, a rejected one
\* contents[results.length], results.length being read at the push
Collect(results, calls, contents, i) ==
  results \o [m \in 1..Cardinality(ChunkAt(i, Len(contents))) |->
               IF calls[i + m].status = "fulfilled"
                 THEN calls[i + m].value
                 ELSE contents[Len(results) + m]]

\* the loop at position i: the next chunk is started, or results is returned
Loop(t, i) ==
  IF i < Len(t.contents)
    THEN [t EXCEPT !.i = i, !.calls = StartChunk(t.calls, t.contents, i)]
    ELSE [t EXCEPT !.i = i, !.state = "returned"]

\* lines 141-157: the call, up to the first await
translateBatch_call ==
  /\ batch.state = "idle" /\ tb.state = "idle"
  /\ \E contents \in ContentLists, targetLanguage \in BatchLanguages :
       tb' = Loop([state |-> "running", contents |-> contents,
                   targetLanguage |-> LanguageOrDefault(targetLanguage), i |-> 0,
                   calls |-> [j \in 1..Len(contents) |-> CallPending],
                   results |-> <<>>], 0)
  /\ UNCHANGED <<fs, clock, retention, pc, req, path, originalContent, backupTmp,
                 backupInfo, translatedContent, todo, cutoff, err, result, ops, pre,
                 faults, batch, guard, note>>

\* messages.create of call j settles: translateContent fulfils with the
\* composed document, or rejects (lines 36-67)
translateBatch_settle(j) ==
  /\ tb.state = "running"
  /\ j \in DOMAIN tb.calls
  /\ tb.calls[j].status = "inflight"
  /\ \E response \in Responses :
       tb' = [tb EXCEPT !.calls[j] =
                IF response.error \/ response.content = <<>>
                  THEN [status |-> "rejected", value |-> <<>>, response |-> response]
                  ELSE [status |-> "fulfilled",
                        value |-> ComposeTranslation(tb.contents[j], response.content,
                                                     clock, tb.targetLanguage),
                        response |-> response]]
  /\ UNCHANGED <<fs, clock, retention, pc, req, path, originalContent, backupTmp,
                 backupInfo, translatedContent, todo, cutoff, err, result, ops, pre,
                 faults, batch, guard, note>>

\* lines 157-169: Promise.allSettled resolves once every call of the chunk
\* has settled; the results are pushed and the loop goes on
translateBatch_resume ==
  /\ tb.state = "running"
  /\ \A j \in ChunkAt(tb.i, Len(tb.contents)) : tb.calls[j].status \in {"fulfilled", "rejected"}
  /\ tb' = Loop([tb EXCEPT !.results = Collect(tb.results, tb.calls, tb.contents, tb.i)],
                tb.i + batchSize)
  /\ UNCHANGED <<fs, clock, retention, pc, req, path, originalContent, backupTmp,
                 backupInfo, translatedContent, todo, cutoff, err, result, ops, pre,
                 faults, batch, guard, note>>

BatchNext ==
  \/ executeBatch_call
  \/ \E k \in Items : executeBatch_execute(k)
  \/ \E k \in Items : exists(k)
  \/ \E k \in Items : readFile(k)
  \/ \E k \in Items : createBackup_read(k)
  \/ \E k \in Items : createBackup_write(k)
  \/ \E k \in Items : createBackup_writeData(k)
  \/ \E k \in Items : createBackup_stat(k)
  \/ \E k \in Items : translateContent(k)
  \/ \E k \in Items : messages_create(k)
  \/ \E k \in Items : updateFileByMode(k)
  \/ \E k \in Items : updateFileByMode_writeData(k)
  \/ \E k \in Items : cleanupOldBackups_readdir(k)
  \/ \E k \in Items : cleanupOldBackups_file(k)
  \/ \E k \in Items : execute_return(k)
  \/ \E k \in Items : executeBatch_settle(k)
  \/ executeBatch_return
  \/ translateBatch_call
  \/ \E j \in 1..MaxContents : translateBatch_settle(j)
  \/ translateBatch_resume

BatchSpec == BatchInit /\ [][BatchNext]_vars

\* ==================================================== the code guard
\* The backtick cannot be written in a string here; the character is named.
Backtick == "backtick"

\* `__INLINE_CODE_${counter}__` and `__CODE_BLOCK_${counter}__`
InlinePlaceholder(counter) ==
  <<"_", "_", "I", "N", "L", "I", "N", "E", "_", "C", "O", "D", "E", "_">>
    \o ToStr(counter) \o <<"_", "_">>
BlockPlaceholder(counter) ==
  <<"_", "_", "C", "O", "D", "E", "_", "B", "L", "O", "C", "K", "_">>
    \o ToStr(counter) \o <<"_", "_">>

\* the first position from i on that holds a backtick, 0 when there is none
NextBacktick(s, i) ==
  IF \E j \in i..Len(s) : s[j] = Backtick
    THEN CHOOSE j \in i..Len(s) : s[j] = Backtick /\ \A j2 \in i..(j - 1) : s[j2] # Backtick
    ELSE 0

\* line 103, content.replace(/`([^`]+)`/g, ...): from the left, a backtick,
\* one or more characters other than a backtick, a backtick; each match gives
\* way to a placeholder numbered by the counter (the number of spans so far)
RECURSIVE InlineFrom(_, _, _, _)
InlineFrom(s, i, out, spans) ==
  IF i > Len(s) THEN [content |-> out, placeholders |-> spans]
  ELSE LET close == NextBacktick(s, i + 1) IN
       IF s[i] = Backtick /\ close >= i + 2
         THEN InlineFrom(s, close + 1, out \o InlinePlaceholder(Len(spans)),
                         Append(spans, <<InlinePlaceholder(Len(spans)), SubSeq(s, i, close)>>))
         ELSE InlineFrom(s, i + 1, Append(out, s[i]), spans)

\* the character class of line 110 as it is written, [\\s\\S]: a backslash,
\* an s or an S
FenceClass == {"\\", "s", "S"}
Fence == <<Backtick, Backtick, Backtick>>
IsFenceAt(s, i) == i + 2 <= Len(s) /\ SubSeq(s, i, i + 2) = Fence

\* the closing fences a match opened at i can end with
FenceCloses(s, i) ==
  {j \in (i + 3)..Len(s) :
     IsFenceAt(s, j) /\ \A m \in (i + 3)..(j - 1) : s[m] \in FenceClass}

\* line 110, replace(/```[\\s\\S]*?```/g, ...): from the left, a fence, as
\* few characters of the class as possible, a fence
RECURSIVE FenceFrom(_, _, _, _)
FenceFrom(s, i, out, spans) ==
  IF i > Len(s) THEN [content |-> out, placeholders |-> spans]
  ELSE IF IsFenceAt(s, i) /\ FenceCloses(s, i) # {}
    THEN LET close == CHOOSE j \in FenceCloses(s, i) : \A j2 \in FenceCloses(s, i) : j <= j2
         IN  FenceFrom(s, close + 3, out \o BlockPlaceholder(Len(spans)),
                       Append(spans, <<BlockPlaceholder(Len(spans)), SubSeq(s, i, close + 2)>>))
  ELSE FenceFrom(s, i + 1, Append(out, s[i]), spans)

\* lines 98-117: the inline pass, then the fence pass over its output, with
\* one counter and one map
protectCodeBlocks(content) ==
  LET inline == InlineFrom(content, 1, <<>>, <<>>)
  IN  FenceFrom(inline.content, 1, <<>>, inline.placeholders)

\* the first position where sub occurs in s, 0 when it does not
IndexOf(s, sub) ==
  LET at == {i \in 1..(Len(s) - Len(sub) + 1) : SubSeq(s, i, i + Len(sub) - 1) = sub}
  IN  IF at = {} THEN 0 ELSE CHOOSE i \in at : \A i2 \in at : i <= i2

\* the replacement text String.prototype.replace makes of a replacement
\* string: $$ is a dollar, $& the matched text, $ and a backtick the text
\* before the match, $' the text after it; anything else stands for itself
RECURSIVE GetSubstitution(_, _, _, _, _)
GetSubstitution(replacement, k, matched, before, after) ==
  IF k > Len(replacement) THEN <<>>
  ELSE IF replacement[k] = "$" /\ k < Len(replacement)
          /\ replacement[k + 1] \in {"$", "&", Backtick, "'"}
    THEN (CASE replacement[k + 1] = "$" -> <<"$">>
            [] replacement[k + 1] = "&" -> matched
            [] replacement[k + 1] = Backtick -> before
            [] OTHER -> after)
         \o GetSubstitution(replacement, k + 2, matched, before, after)
  ELSE <<replacement[k]>> \o GetSubstitution(replacement, k + 1, matched, before, after)

\* line 129, restoredContent.replace(placeholder, original): the first
\* occurrence of the placeholder gives way to the replacement text
ReplaceFirst(s, placeholder, original) ==
  LET at == IndexOf(s, placeholder) IN
  IF at = 0 THEN s
  ELSE LET before == SubSeq(s, 1, at - 1)
           after == SubSeq(s, at + Len(placeholder), Len(s))
       IN  before \o GetSubstitution(original, 1, placeholder, before, after) \o after

\* lines 125-133: the placeholders are put back in the order they were set
RECURSIVE restoreCodeBlocks(_, _)
restoreCodeBlocks(content, placeholders) ==
  IF placeholders = <<>> THEN content
  ELSE restoreCodeBlocks(ReplaceFirst(content, Head(placeholders)[1], Head(placeholders)[2]),
                         Tail(placeholders))

\* the bodies: every text of at most MaxBody characters over a backtick, a
\* letter and a dollar; an empty fenced block, a fenced block holding a
\* letter, and a text that spells a placeholder before a code span
BodyChars == {Backtick, "a", "$"}
Bodies ==
  UNION {[1..n -> BodyChars] : n \in 0..MaxBody}
  \cup {Fence \o Fence, Fence \o <<"a">> \o Fence,
        InlinePlaceholder(0) \o <<Backtick, "a", Backtick>>}

GuardInit ==
  /\ fs = InitFs
  /\ clock = 2
  /\ retention \in {0}
  /\ pc = [r \in Runs |-> "Idle"]
  /\ req = [r \in Runs |-> NoRequest]
  /\ path = [r \in Runs |-> <<>>]
  /\ originalContent = [r \in Runs |-> <<>>]
  /\ backupTmp = [r \in Runs |-> NoTmp]
  /\ backupInfo = [r \in Runs |-> NoBackup]
  /\ translatedContent = [r \in Runs |-> <<>>]
  /\ todo = [r \in Runs |-> {}]
  /\ cutoff = [r \in Runs |-> 0]
  /\ err = [r \in Runs |-> NoError]
  /\ result = [r \in Runs |-> NoResult]
  /\ ops = [r \in Runs |-> <<>>]
  /\ pre = [r \in Runs |-> InitFs]
  /\ faults = FALSE
  /\ batch = NoBatch
  /\ tb = NoTb
  /\ note = [r \in Runs |-> NoNote]
  /\ \E body \in Bodies : guard = [NoGuard EXCEPT !.state = "input", !.body = body]

\* protectCodeBlocks(body) is called
protectCodeBlocks_call ==
  /\ guard.state = "input"
  /\ guard' = [guard EXCEPT !.state = "protected",
                            !.content = protectCodeBlocks(guard.body).content,
                            !.placeholders = protectCodeBlocks(guard.body).placeholders]
  /\ UNCHANGED <<fs, clock, retention, pc, req, path, originalContent, backupTmp,
                 backupInfo, translatedContent, todo, cutoff, err, result, ops, pre,
                 faults, batch, tb, note>>

\* restoreCodeBlocks is called with what protectCodeBlocks has returned
restoreCodeBlocks_call ==
  /\ guard.state = "protected"
  /\ guard' = [guard EXCEPT !.state = "restored",
                            !.restored = restoreCodeBlocks(guard.content, guard.placeholders)]
  /\ UNCHANGED <<fs, clock, retention, pc, req, path, originalContent, backupTmp,
                 backupInfo, translatedContent, todo, cutoff, err, result, ops, pre,
                 faults, batch, tb, note>>

GuardNext ==
  \/ protectCodeBlocks_call
  \/ restoreCodeBlocks_call

GuardSpec == GuardInit /\ [][GuardNext]_vars

\* ======================================================== NotesTool
\* The handlers of types/index.ts pass the arguments of the caller on as they
\* are, once path and content are known to be there (lines 237-295).
P_noext == <<"n", "/", "a">>
P_outside == <<"/", "x", ".", "m", "d">>
NotePaths == {P_a, P_noext, P_missing, P_dotdot, P_dir}
NoteContents == {Hello}
NoteModes == {"", "append", "prepend", "bogus"}
CreateBackupArgs == {"", "true", "false"}
DotMd == <<".", "m", "d">>

\* the disk of the note operations: the notes and backups of the vault, and
\* a file beside the vault
NotesFs == InitFs @@ (P_outside :> File(Hello, 0))

NotesInit ==
  /\ fs = NotesFs
  /\ clock = 2
  /\ retention \in {0}
  /\ pc = [r \in Runs |-> "Idle"]
  /\ req = [r \in Runs |-> NoRequest]
  /\ path = [r \in Runs |-> <<>>]
  /\ originalContent = [r \in Runs |-> <<>>]
  /\ backupTmp = [r \in Runs |-> NoTmp]
  /\ backupInfo = [r \in Runs |-> NoBackup]
  /\ translatedContent = [r \in Runs |-> <<>>]
  /\ todo = [r \in Runs |-> {}]
  /\ cutoff = [r \in Runs |-> 0]
  /\ err = [r \in Runs |-> NoError]
  /\ result = [r \in Runs |-> NoResult]
  /\ ops = [r \in Runs |-> <<>>]
  /\ pre = [r \in Runs |-> NotesFs]
  /\ faults = TRUE
  /\ batch = NoBatch
  /\ tb = NoTb
  /\ guard = NoGuard
  /\ note = [r \in Runs |-> NoNote]

\* a call of a NotesTool operation, up to its first await
NoteCall(r, op, p, content, mode, createBackup, at) ==
  /\ pc[r] = "Idle"
  /\ note' = [note EXCEPT ![r] = [op |-> op, path |-> p, content |-> content, mode |-> mode,
                                  createBackup |-> createBackup, final |-> <<>>]]
  /\ path' = [path EXCEPT ![r] = p]
  /\ pre' = [pre EXCEPT ![r] = fs]
  /\ pc' = [pc EXCEPT ![r] = at]
  /\ UNCHANGED <<fs, clock, retention, req, originalContent, backupTmp, backupInfo,
                 translatedContent, todo, cutoff, err, result, ops, faults, batch, tb, guard>>

\* notes.ts:124, createNote is called and awaits exists(path)
createNote_call(r) ==
  \E p \in NotePaths, content \in NoteContents :
    NoteCall(r, "create", p, content, "", "", "CreateLocating")

\* path.endsWith('.md') ? path : path + '.md'
WithMd(p) == IF EndsWith(p, DotMd) THEN p ELSE p \o DotMd

\* lines 134-151: title, created and modified, no tags, no template
NewNoteContent(content, now) ==
  stringify(content, [title |-> "N", created |-> toISOString(now), modified |-> toISOString(now)])

\* lines 124-154: exists(path) answers; an existing file is refused, otherwise
\* '.md' is added to a path that lacks it, the note is composed and writeFile
\* is called
createNote_exists(r) ==
  /\ pc[r] = "CreateLocating"
  /\ \E fault \in FaultChoices :
       LET p == getAbsolutePath(path[r])
           found == (p \in DOMAIN fs) /\ ~fault
       IN  /\ ops' = [ops EXCEPT ![r] = Append(@, Op("exists", "access", p, found))]
           /\ IF found
                THEN /\ Fail(r, Error(FILE_NOT_FOUND, "already exists"))
                     /\ UNCHANGED <<path, note>>
                ELSE /\ path' = [path EXCEPT ![r] = WithMd(path[r])]
                     /\ note' = [note EXCEPT ![r].final = NewNoteContent(note[r].content, clock)]
                     /\ pc' = [pc EXCEPT ![r] = "NoteWrite"]
                     /\ UNCHANGED err
  /\ UNCHANGED <<fs, clock, retention, req, originalContent, backupTmp, backupInfo,
                 translatedContent, todo, cutoff, result, pre, faults, batch, tb, guard>>

\* notes.ts:178, readNote is called and awaits readFile(path)
readNote_call(r) ==
  \E p \in NotePaths : NoteCall(r, "read", p, <<>>, "", "", "NoteReading")

\* lines 178-184: the file is read and split; a failure is FILE_NOT_FOUND
readNote_read(r) ==
  /\ pc[r] = "NoteReading"
  /\ \E fault \in FaultChoices :
       LET p == getAbsolutePath(path[r])
           ok == IsFile(fs, p) /\ ~fault
       IN  /\ ops' = [ops EXCEPT ![r] = Append(@, Op("readFile", "read", p, ok))]
           /\ IF ok
                THEN /\ originalContent' = [originalContent EXCEPT ![r] = fs[p].content]
                     /\ pc' = [pc EXCEPT ![r] = "Done"]
                     /\ UNCHANGED err
                ELSE /\ Fail(r, Error(FILE_NOT_FOUND, "cannot read"))
                     /\ UNCHANGED originalContent
  /\ UNCHANGED <<fs, clock, retention, req, path, backupTmp, backupInfo, translatedContent,
                 todo, cutoff, result, pre, faults, batch, tb, guard, note>>

\* notes.ts:209, updateNote is called and awaits exists(path)
updateNote_call(r) ==
  \E p \in NotePaths, content \in NoteContents, mode \in NoteModes,
     createBackup \in CreateBackupArgs :
    NoteCall(r, "update", p, content, mode, createBackup, "UpdateLocating")

\* createBackup: boolean = true
CreateBackupOf(n) == n.createBackup # "false"

\* mode = 'replace' when the argument is absent
NoteModeOf(n) == IF n.mode = "" THEN "replace" ELSE n.mode

\* updateNote that goes on to read the note whatever createBackup says
updateNote_exists_noBackup(r) ==
  /\ pc[r] = "UpdateLocating"
  /\ \E fault \in FaultChoices :
       LET p == getAbsolutePath(path[r])
           found == (p \in DOMAIN fs) /\ ~fault
       IN  /\ ops' = [ops EXCEPT ![r] = Append(@, Op("exists", "access", p, found))]
           /\ IF found
                THEN /\ pc' = [pc EXCEPT ![r] = "UpdateReading"]
                     /\ UNCHANGED err
                ELSE Fail(r, FileNotFound)
  /\ UNCHANGED <<fs, clock, retention, req, path, originalContent, backupTmp, backupInfo,
                 translatedContent, todo, cutoff, result, pre, faults, batch, tb, guard, note>>

\* lines 209-216: exists(path) answers; an absent file is FILE_NOT_FOUND,
\* otherwise createBackup(path) is called when asked for
updateNote_exists(r) ==
  /\ pc[r] = "UpdateLocating"
  /\ \E fault \in FaultChoices :
       LET p == getAbsolutePath(path[r])
           found == (p \in DOMAIN fs) /\ ~fault
       IN  /\ ops' = [ops EXCEPT ![r] = Append(@, Op("exists", "access", p, found))]
           /\ IF found
                THEN /\ pc' = [pc EXCEPT ![r] =
                            IF CreateBackupOf(note[r]) THEN "BackingUp" ELSE "UpdateReading"]
                     /\ UNCHANGED err
                ELSE Fail(r, FileNotFound)
  /\ UNCHANGED <<fs, clock, retention, req, path, originalContent, backupTmp, backupInfo,
                 translatedContent, todo, cutoff, result, pre, faults, batch, tb, guard, note>>

\* the literal of lines 228 and 231 (backslash-n sequences, not line feeds)
NoteSeparator == <<Txt("\\n\\n")>>

\* lines 222-244: the switch on mode, and the note composed with modified set
UpdatedNoteContent(raw, newContent, mode, now) ==
  LET existing == matter(raw)
      finalContent ==
        CASE mode = "replace" -> newContent
          [] mode = "append" -> existing.content \o NoteSeparator \o newContent
          [] OTHER -> newContent \o NoteSeparator \o existing.content
  IN  stringify(finalContent, Spread(existing.data, [modified |-> toISOString(now)]))

\* lines 219-245: readNote(path) answers; the mode is switched on (an unknown
\* mode is TRANSLATION_FAILED), the note is composed and writeFile is called
updateNote_read(r) ==
  /\ pc[r] = "UpdateReading"
  /\ \E fault \in FaultChoices :
       LET p == getAbsolutePath(path[r])
           ok == IsFile(fs, p) /\ ~fault
           mode == NoteModeOf(note[r])
       IN  /\ ops' = [ops EXCEPT ![r] = Append(@, Op("readFile", "read", p, ok))]
           /\ IF ~ok
                THEN /\ Fail(r, Error(FILE_NOT_FOUND, "cannot read"))
                     /\ UNCHANGED <<originalContent, note>>
              ELSE IF mode \notin {"replace", "append", "prepend"}
                THEN /\ Fail(r, Error(TRANSLATION_FAILED, "Invalid mode"))
                     /\ originalContent' = [originalContent EXCEPT ![r] = fs[p].content]
                     /\ UNCHANGED note
              ELSE /\ originalContent' = [originalContent EXCEPT ![r] = fs[p].content]
                   /\ note' = [note EXCEPT ![r].final =
                          UpdatedNoteContent(fs[p].content, note[r].content, mode, clock)]
                   /\ pc' = [pc EXCEPT ![r] = "NoteWrite"]
                   /\ UNCHANGED err
  /\ UNCHANGED <<fs, clock, retention, req, path, backupTmp, backupInfo, translatedContent,
                 todo, cutoff, result, pre, faults, batch, tb, guard>>

\* FileSystemHelper.writeFile called by createNote and updateNote:
\* fs.writeFile opens the file, which is created, or truncated, before any
\* data is written
writeFile_open(r) ==
  /\ pc[r] = "NoteWrite"
  /\ \E fault \in FaultChoices :
       LET p == getAbsolutePath(path[r])
           ok == ~fault /\ ~(p \in DOMAIN fs /\ fs[p].kind = "dir")
       IN  IF ok
             THEN /\ fs' = WriteTo(fs, p, <<>>, clock)
                  /\ pc' = [pc EXCEPT ![r] = "NoteWriteData"]
                  /\ UNCHANGED <<err, ops>>
             ELSE /\ ops' = [ops EXCEPT ![r] = Append(@, Op("writeFile", "write", p, FALSE))]
                  /\ Fail(r, Error(PERMISSION_DENIED, "cannot write"))
                  /\ UNCHANGED fs
  /\ UNCHANGED <<clock, retention, req, path, originalContent, backupTmp, backupInfo,
                 translatedContent, todo, cutoff, result, pre, faults, batch, tb, guard, note>>

\* fs.writeFile writing the data: all of it, or on a failure a part; then the
\* operation returns
writeFile_data(r) ==
  /\ pc[r] = "NoteWriteData"
  /\ \E fault \in FaultChoices :
       LET p == getAbsolutePath(path[r]) IN
       /\ ops' = [ops EXCEPT ![r] = Append(@, Op("writeFile", "write", p, ~fault))]
       /\ IF ~fault
            THEN /\ fs' = WriteTo(fs, p, note[r].final, clock)
                 /\ pc' = [pc EXCEPT ![r] = "Done"]
                 /\ UNCHANGED err
            ELSE /\ \E part \in Partial(note[r].final) : fs' = WriteTo(fs, p, part, clock)
                 /\ Fail(r, Error(PERMISSION_DENIED, "cannot write"))
  /\ UNCHANGED <<clock, retention, req, path, originalContent, backupTmp, backupInfo,
                 translatedContent, todo, cutoff, result, pre, faults, batch, tb, guard, note>>

NotesNext ==
  \/ \E r \in Runs : createNote_call(r)
  \/ \E r \in Runs : createNote_exists(r)
  \/ \E r \in Runs : readNote_call(r)
  \/ \E r \in Runs : readNote_read(r)
  \/ \E r \in Runs : updateNote_call(r)
  \/ \E r \in Runs : updateNote_exists(r)
  \/ \E r \in Runs : createBackup_read(r)
  \/ \E r \in Runs : createBackup_write(r)
  \/ \E r \in Runs : createBackup_writeData(r)
  \/ \E r \in Runs : createBackup_stat(r)
  \/ \E r \in Runs : updateNote_read(r)
  \/ \E r \in Runs : writeFile_open(r)
  \/ \E r \in Runs : writeFile_data(r)

NotesSpec == NotesInit /\ [][NotesNext]_vars

\* ================================================ concurrent requests
\* The request handler of types/index.ts (lines 161-201) is async: a second
\* request is taken up while the first one awaits, and the two calls of
\* execute take their steps in any order.
ConcRuns == {"r1", "r2"}
P_c == <<"n", "/", "c", ".", "m", "d">>

\* two notes in one directory, no backup yet
ConcFs == (getAbsolutePath(P_a) :> File(DocA, 0)) @@ (getAbsolutePath(P_c) :> File(Hallo, 0))

\* the first call is for n/a.md, the second for n/a.md or n/c.md
ConcFiles(r) == IF r = "r1" THEN {P_a} ELSE {P_a, P_c}
ConcRetention == {0, 1}

\* The calls are followed on a healthy disk, from the last reading but one of
\* the clock.
ConcInit ==
  /\ fs = ConcFs
  /\ clock = MaxClock - 1
  /\ retention \in ConcRetention
  /\ pc = [r \in ConcRuns |-> "Idle"]
  /\ req = [r \in ConcRuns |-> NoRequest]
  /\ path = [r \in ConcRuns |-> <<>>]
  /\ originalContent = [r \in ConcRuns |-> <<>>]
  /\ backupTmp = [r \in ConcRuns |-> NoTmp]
  /\ backupInfo = [r \in ConcRuns |-> NoBackup]
  /\ translatedContent = [r \in ConcRuns |-> <<>>]
  /\ todo = [r \in ConcRuns |-> {}]
  /\ cutoff = [r \in ConcRuns |-> 0]
  /\ err = [r \in ConcRuns |-> NoError]
  /\ result = [r \in ConcRuns |-> NoResult]
  /\ ops = [r \in ConcRuns |-> <<>>]
  /\ pre = [r \in ConcRuns |-> ConcFs]
  /\ faults = FALSE
  /\ batch = NoBatch
  /\ tb = NoTb
  /\ guard = NoGuard
  /\ note = [r \in ConcRuns |-> NoNote]

\* handleTranslateNote (lines 207-218): execute is called with the url, the
\* language and the mode of the arguments; the client gave the url alone
handleTranslateNote(r) ==
  /\ \E f \in ConcFiles(r) :
       execute_call(r, [url |-> Addr("obsidian", "open", "Main", f),
                        targetLanguage |-> "", mode |-> ""])
  /\ UNCHANGED <<guard, note, faults, batch, tb>>

ConcNext ==
  \/ \E r \in ConcRuns : handleTranslateNote(r)
  \/ \E r \in ConcRuns : exists(r)
  \/ \E r \in ConcRuns : readFile(r)
  \/ \E r \in ConcRuns : createBackup_read(r)
  \/ \E r \in ConcRuns : createBackup_write(r)
  \/ \E r \in ConcRuns : createBackup_writeData(r)
  \/ \E r \in ConcRuns : createBackup_stat(r)
  \/ \E r \in ConcRuns : translateContent(r)
  \/ \E r \in ConcRuns : messages_create(r)
  \/ \E r \in ConcRuns : updateFileByMode(r)
  \/ \E r \in ConcRuns : updateFileByMode_writeData(r)
  \/ \E r \in ConcRuns : cleanupOldBackups_readdir(r)
  \/ \E r \in ConcRuns : cleanupOldBackups_file(r)
  \/ \E r \in ConcRuns : execute_return(r)
  \/ Tick

ConcSpec == ConcInit /\ [][ConcNext]_vars

\* ================================================================ claims
Target(r) == getAbsolutePath(path[r])
Started(r) == pc[r] # "Idle"
Validated(r) == path[r] # <<>>

\* the content of path p on disk f, <<"absent">> when there is no such file
ContentAt(f, p) == IF p \in DOMAIN f THEN <<"file", f[p].content>> ELSE <<"absent">>

\* the step changes what is stored at path p
Touches(p) == ContentAt(fs', p) # ContentAt(fs, p)

\* the sibling of filePath with '.ja' before the extension
SiblingOf(filePath) ==
  LET ext == extname(filePath)
  IN  join(dirname(filePath), basename(filePath, ext) \o <<".", "j", "a">> \o ext)

OpsBy(r, by) == {i \in DOMAIN ops[r] : ops[r][i].by = by}
FailedOpsBy(r, by) == {i \in OpsBy(r, by) : ~ops[r][i].ok}

\* C1: in every step of execute that changes the target path, or the sibling
\* path of parallel mode, createBackup has already returned its BackupInfo for
\* that target in the same run.
C1_BackupBeforeMutate ==
  [][\A r \in Runs :
       (Validated(r) /\ (Touches(Target(r)) \/ Touches(getAbsolutePath(SiblingOf(path[r])))))
         => /\ backupInfo[r] # NoBackup
            /\ backupInfo[r].originalPath = path[r]
            /\ \E i \in OpsBy(r, "createBackup") : ops[r][i].op = "stat" /\ ops[r][i].ok]_vars

C1_Witness ==
  \E r \in Runs :
    /\ pc[r] = "Pruning"
    /\ ContentAt(fs, Target(r)) # ContentAt(pre[r], Target(r))
    /\ backupInfo[r].originalPath = path[r]

\* The address is malformed, names another collection, or its path is unsafe.
HasHiddenSegment(p) ==
  \E i \in DOMAIN p : p[i] = "." /\ (i = 1 \/ p[i - 1] = "/")
HasDriveLetter(p) == Len(p) >= 2 /\ p[2] = ":" /\ p[1] \in Letters
UnsafePath(p) ==
  \/ Includes(p, <<".", ".">>)
  \/ "~" \in Range(p)
  \/ (p # <<>> /\ p[1] = "/")
  \/ HasDriveLetter(p)
  \/ HasHiddenSegment(p)
BadAddress(q) ==
  \/ q.url.scheme # "obsidian" \/ q.url.action # "open"
  \/ q.url.vault = "" \/ q.url.file = <<>>
  \/ q.url.vault # configuredVault
  \/ UnsafePath(parse(q.url).path)

\* C2: a run whose address is malformed, names another collection or has an
\* unsafe path is Failed with a validation error, has made no filesystem or
\* external call, and has left the disk as it was.
C2_ValidationFailsBeforeIO ==
  \A r \in Runs :
    (Started(r) /\ BadAddress(req[r]))
      => /\ pc[r] = "Failed"
         /\ err[r].code \in {INVALID_URL, VAULT_MISMATCH, INVALID_PATH}
         /\ ops[r] = <<>>
         /\ fs = pre[r]

C2_Witness ==
  \E r \in Runs :
    /\ pc[r] = "Failed" /\ err[r].code = INVALID_PATH
    /\ req[r].url.file = P_encdots
    /\ ops[r] = <<>>

\* C3: when the target file does not exist, the run fails with FILE_NOT_FOUND,
\* the disk is unchanged, no backup is written, messages.create is not called
\* and no file is written.
C3_MissingTarget ==
  \A r \in Runs :
    (Validated(r) /\ Target(r) \notin DOMAIN pre[r] /\ pc[r] # "Locating")
      => /\ pc[r] = "Failed"
         /\ err[r].code = FILE_NOT_FOUND
         /\ fs = pre[r]
         /\ \A i \in DOMAIN ops[r] : ops[r][i].op \notin {"write", "messages.create", "unlink"}
         /\ backupInfo[r] = NoBackup

C3_Witness ==
  \E r \in Runs :
    /\ pc[r] = "Failed" /\ err[r].code = FILE_NOT_FOUND
    /\ Validated(r) /\ Target(r) \notin DOMAIN pre[r]
    /\ Len(ops[r]) = 1 /\ ops[r][1].op = "access"

\* C4: when a call made by createBackup fails (its read of the source, its
\* write of the backup file, its stat), the run is Failed with BACKUP_FAILED,
\* the target holds what it held before the run, and neither the translation
\* nor the apply step has run.
C4_BackupFailure ==
  \A r \in Runs :
    (FailedOpsBy(r, "createBackup") # {})
      => /\ pc[r] = "Failed"
         /\ err[r].code = BACKUP_FAILED
         /\ ContentAt(fs, Target(r)) = ContentAt(pre[r], Target(r))
         /\ OpsBy(r, "translateContent") = {}
         /\ OpsBy(r, "writeFile") = {}
         /\ translatedContent[r] = <<>>

C4_Witness ==
  \E r \in Runs :
    /\ pc[r] = "Failed" /\ err[r].code = BACKUP_FAILED
    /\ \E i \in FailedOpsBy(r, "createBackup") : ops[r][i].op = "write"

\* C5: when messages.create rejects, the run is Failed with
\* TRANSLATION_FAILED; the backup file of this run is on disk with the
\* content read from the source, the source holds what it held before the
\* run, and nothing has been written by the apply step or removed by pruning.
C5_TranslationFailure ==
  \A r \in Runs :
    (FailedOpsBy(r, "translateContent") # {})
      => /\ pc[r] = "Failed"
         /\ err[r].code = TRANSLATION_FAILED
         /\ backupInfo[r] # NoBackup
         /\ ContentAt(fs, getAbsolutePath(backupInfo[r].backupPath))
              = <<"file", originalContent[r]>>
         /\ ContentAt(fs, Target(r)) = ContentAt(pre[r], Target(r))
         /\ OpsBy(r, "writeFile") = {}
         /\ OpsBy(r, "cleanupOldBackups") = {}

C5_Witness ==
  \E r \in Runs :
    /\ pc[r] = "Failed" /\ err[r].code = TRANSLATION_FAILED
    /\ FailedOpsBy(r, "translateContent") # {}
    /\ getAbsolutePath(backupInfo[r].backupPath) \in DOMAIN fs

\* the fs.writeFile calls of the run went to paths in allowed
WritesWithin(r, allowed) ==
  \A i \in DOMAIN ops[r] : ops[r][i].op = "write" => ops[r][i].path \in allowed

\* the run's own pruning has unlinked its target, whose name carries the
\* backup marker
PrunedTarget(r) ==
  /\ Includes(lastSegment(path[r]), BackupMarker)
  /\ Target(r) \notin DOMAIN fs
  /\ \E i \in OpsBy(r, "cleanupOldBackups") :
       ops[r][i].op = "unlink" /\ ops[r][i].path = Target(r) /\ ops[r][i].ok

Applied(r) == pc[r] \in {"Pruning", "PruningFiles", "Done"}

\* C6 (as claimed): after a successful run in parallel mode the source holds
\* what it held before the run, and the translated document is in a distinct
\* sibling file named with the language suffix before the extension.
C6_ParallelKeepsSource ==
  \A r \in Runs :
    (pc[r] = "Done" /\ ModeOf(req[r]) = "parallel")
      => /\ ContentAt(fs, Target(r)) = ContentAt(pre[r], Target(r))
         /\ getAbsolutePath(SiblingOf(path[r])) # Target(r)
         /\ ContentAt(fs, getAbsolutePath(SiblingOf(path[r]))) = <<"file", translatedContent[r]>>

IsPrefix(a, b) == Len(a) <= Len(b) /\ SubSeq(b, 1, Len(a)) = a

C9_InvalidMode ==
  /\ [](\A r \in Runs :
          (Started(r) /\ req[r].mode \notin {"", "replace", "append", "parallel"})
            => /\ ~Applied(r)
               /\ OpsBy(r, "writeFile") = {}
               /\ (Validated(r) => ContentAt(fs, Target(r)) = ContentAt(pre[r], Target(r))))
  /\ [][\A r \in Runs :
          (pc[r] = "Applying" /\ pc'[r] # "Applying"
           /\ req[r].mode \notin {"", "replace", "append", "parallel"})
            => /\ pc'[r] = "Failed"
               /\ err'[r] = Error(TRANSLATION_FAILED, "Invalid mode")
               /\ fs' = fs]_vars

C9_Witness ==
  \E r \in Runs :
    /\ pc[r] = "Failed" /\ req[r].mode = "bogus"
    /\ err[r] = Error(TRANSLATION_FAILED, "Invalid mode")
    /\ translatedContent[r] # <<>>

Pruning(r) == pc[r] \in {"Pruning", "PruningFiles"}

\* the steps of cleanupOldBackups still ahead of a run at stage, at most
Rank(stage, entries, disk) ==
  IF stage = "Pruning" THEN Cardinality(DOMAIN disk) + 2
  ELSE IF stage = "PruningFiles" THEN Cardinality(entries) + 1
  ELSE 0

\* C10: no step of cleanupOldBackups, whatever fails in it (readdir, stat,
\* unlink), takes the run to Failed or sets an error; every step of a run in
\* pruning brings it nearer to Done, and Done carries the outcome.
C10_PruningNeverFails ==
  /\ [](\A r \in Runs : pc[r] = "Done" => result[r] # NoResult /\ err[r] = NoError)
  /\ [][\A r \in Runs :
          (Pruning(r) /\ <<pc'[r], todo'[r], ops'[r]>> # <<pc[r], todo[r], ops[r]>>)
            => /\ pc'[r] \in {"Pruning", "PruningFiles", "Done"}
               /\ err'[r] = NoError
               /\ Rank(pc'[r], todo'[r], fs') < Rank(pc[r], todo[r], fs)]_vars

C10_Witness ==
  \E r \in Runs :
    /\ pc[r] = "Done"
    /\ result[r].backupPath = backupInfo[r].backupPath
    /\ \E i \in FailedOpsBy(r, "cleanupOldBackups") : ops[r][i].op = "unlink"
    /\ \E i \in OpsBy(r, "cleanupOldBackups") : ops[r][i].op = "unlink" /\ ops[r][i].ok

\* createBackup has returned and nothing has followed it yet
BackedUp(r) == pc[r] = "Translating"

\* name is <base>.backup-<t><ext> for the base name and extension of filePath
IsBackupNameOf(name, filePath, t) ==
  name = basename(filePath, extname(filePath)) \o BackupMarker \o ToStr(t)
           \o extname(filePath)

\* C11: while createBackup runs the disk is the one of the call; when it has
\* returned, backupPath is the sibling <base>.backup-<millis><ext> in the
\* directory of the source, millis being the returned timestamp; the file
\* there holds exactly the content the source had at the call, and the source
\* and every other file are as they were.
C11_BackupIsExactCopy ==
  \A r \in Runs :
    /\ pc[r] \in {"BackingUp", "BackupWrite"} => fs = pre[r]
    /\ BackedUp(r) =>
         LET bp == backupInfo[r].backupPath IN
         /\ backupInfo[r] # NoBackup
         /\ backupInfo[r].originalPath = path[r]
         /\ dirname(getAbsolutePath(bp)) = dirname(Target(r))
         /\ \E t \in 0..clock :
              /\ backupInfo[r].timestamp = toISOString(t)
              /\ IsBackupNameOf(lastSegment(bp), path[r], t)
         /\ getAbsolutePath(bp) # Target(r)
         /\ ContentAt(fs, getAbsolutePath(bp)) = ContentAt(pre[r], Target(r))
         /\ \A p \in (DOMAIN fs \cup DOMAIN pre[r]) \ {getAbsolutePath(bp)} :
              ContentAt(fs, p) = ContentAt(pre[r], p)

C11_Witness ==
  \E r \in Runs :
    /\ BackedUp(r) /\ path[r] = P_a
    /\ backupInfo[r].backupPath = <<"n", "/", "a">> \o BackupMarker \o <<"3", ".", "m", "d">>
    /\ ContentAt(fs, getAbsolutePath(backupInfo[r].backupPath)) = <<"file", DocA>>
    /\ ContentAt(fs, Target(r)) = <<"file", DocA>>

\* the directory the run prunes, and the backup files of disk f in it
PruneDir(r) == getAbsolutePath(CleanupDirectory(path[r]))
BackupFilesIn(f, d) ==
  {p \in DOMAIN f : dirname(p) = d /\ IsFile(f, p) /\ Includes(lastSegment(p), BackupMarker)}

\* the time of the call of cleanupOldBackups, and the age of a file at that
\* time, in clock ticks
PruneNow(r) == cutoff[r] + retention * DayTicks
AgeAtPrune(r, mtime) == PruneNow(r) - mtime
Listed(r) == \E i \in OpsBy(r, "cleanupOldBackups") : ops[r][i].op = "readdir" /\ ops[r][i].ok

C13_BackupSurvivesRun ==
  \A r \in Runs :
    (pc[r] = "Done" /\ retention >= 0)
      => /\ result[r].backupPath # <<>>
         /\ ContentAt(fs, getAbsolutePath(result[r].backupPath))
              = <<"file", result[r].originalContent>>
         /\ result[r].originalContent = pre[r][Target(r)].content
         /\ \E t \in 0..clock :
              /\ result[r].timestamp = toISOString(t)
              /\ IsBackupNameOf(lastSegment(result[r].backupPath), path[r], t)

\* the stage of the pipeline a run is in, and its place in the order
StageOf(at) ==
  IF at = "Idle" THEN "Validating"
  ELSE IF at \in {"Locating", "Reading"} THEN "Locating-Source"
  ELSE IF at \in {"BackingUp", "BackupWrite", "BackupWriteData", "BackupStat"} THEN "Backing-Up"
  ELSE IF at \in {"Translating", "AwaitApi"} THEN "Translating"
  ELSE IF at \in {"Applying", "ApplyingData"} THEN "Applying"
  ELSE IF at \in {"Pruning", "PruningFiles"} THEN "Pruning"
  ELSE at
StageOrder ==
  <<"Validating", "Locating-Source", "Backing-Up", "Translating", "Applying", "Pruning", "Done">>
StageNo(at) == CHOOSE i \in 1..8 : IF i = 8 THEN StageOf(at) = "Failed" ELSE StageOrder[i] = StageOf(at)
Terminal(at) == at \in {"Done", "Failed"}

\* C14: a step of a run stays in its stage, moves to the next stage of the
\* order Validating, Locating-Source, Backing-Up, Translating, Applying,
\* Pruning, Done, or moves to Failed; a run in Done or Failed stays there,
\* makes no filesystem or external call, and the disk is left alone.
C14_StageOrder ==
  [][\A r \in Runs :
       IF Terminal(pc[r])
         THEN pc'[r] = pc[r] /\ ops'[r] = ops[r] /\ fs' = fs
                /\ result'[r] = result[r] /\ err'[r] = err[r]
         ELSE \/ StageNo(pc'[r]) = StageNo(pc[r])
              \/ StageNo(pc'[r]) = StageNo(pc[r]) + 1
              \/ pc'[r] = "Failed"]_vars

C14_Witness ==
  \E r \in Runs :
    /\ pc[r] = "Done" /\ clock = MaxClock
    /\ \A by \in {"exists", "readFile", "createBackup", "translateContent", "writeFile",
                   "cleanupOldBackups"} : OpsBy(r, by) # {}

\* what the apply step of the run writes, once the translation is there
AppliedContent(r) ==
  WriteContentOf(originalContent[r], translatedContent[r], ModeOf(req[r]))

\* C15 (as claimed): a run that has completed its backup and is no longer
\* waiting for the external call is applying or past it, or is Failed with the
\* file of backupPath on disk; and in every state the target holds either
\* what it held before the run or the complete content the run applies.
C15_NoPartialWrite ==
  \A r \in Runs :
    /\ (backupInfo[r] # NoBackup /\ pc[r] = "Failed")
         => getAbsolutePath(backupInfo[r].backupPath) \in DOMAIN fs
    /\ Validated(r)
         => \/ ContentAt(fs, Target(r)) = ContentAt(pre[r], Target(r))
            \/ /\ translatedContent[r] # <<>>
               /\ ContentAt(fs, Target(r)) = <<"file", AppliedContent(r)>>

\* --------------------------------------------------- the batch operations
\* the pipelines of executeBatch under way, and the external calls in flight
Running == {k \in DOMAIN pc : pc[k] \notin {"Idle", "Done", "Failed"}}
ExternalCalls == {k \in DOMAIN pc : pc[k] = "AwaitApi"}
InFlight == {j \in DOMAIN tb.calls : tb.calls[j].status = "inflight"}
CallStarted(j) == tb.calls[j].status # "pending"
CallSettled(j) == tb.calls[j].status \in {"fulfilled", "rejected"}
\* the chunk of three a position belongs to
ChunkNo(j) == (j - 1) \div 3

\* C16: during executeBatch and translateBatch at most 3 pipelines are under
\* way and at most 3 external calls are in flight; no call of translateBatch
\* is started before every call of the chunks of three before it has settled,
\* and no pipeline of executeBatch is started before every pipeline before it
\* (a fortiori every one of an earlier chunk) has ended.
C16_BoundedWindow ==
  /\ Cardinality(Running) <= 3
  /\ Cardinality(ExternalCalls) + Cardinality(InFlight) <= 3
  /\ \A j \in DOMAIN tb.calls : \A j2 \in DOMAIN tb.calls :
       (ChunkNo(j2) < ChunkNo(j) /\ CallStarted(j)) => CallSettled(j2)
  /\ \A k \in DOMAIN pc : \A k2 \in DOMAIN pc :
       (k2 < k /\ pc[k] # "Idle") => Terminal(pc[k2])

C16_Witness ==
  /\ Cardinality(InFlight) = 3
  /\ Len(tb.contents) = 4 /\ tb.calls[4].status = "pending"

\* the run of address k has failed for a reason of its own: its address is
\* refused, its target was absent when it started, or its own external call
\* was made and the translation failed
OwnFailure(k) ==
  \/ BadAddress(req[k]) /\ err[k].code \in {INVALID_URL, VAULT_MISMATCH, INVALID_PATH}
  \/ Validated(k) /\ Target(k) \notin DOMAIN pre[k] /\ err[k].code = FILE_NOT_FOUND
  \/ OpsBy(k, "translateContent") # {} /\ err[k].code = TRANSLATION_FAILED

\* the run of address k is Done and has written its target
DoneAndWritten(k) ==
  /\ pc[k] = "Done"
  /\ \E i \in OpsBy(k, "writeFile") :
       ops[k][i].op = "write" /\ ops[k][i].ok /\ ops[k][i].path = Target(k)

\* C17: when executeBatch has returned, the pipeline of every address of the
\* input has been run, in replace mode, to Done or to Failed; a run is Failed
\* only for a reason of its own, so that every address that succeeds alone,
\* before or after a failing one, is Done and its write has occurred.
C17_FailureIsolation ==
  batch.state = "returned"
    => \A k \in 1..Len(batch.urls) :
         /\ req[k].url = batch.urls[k] /\ req[k].mode = "replace"
         /\ \/ DoneAndWritten(k)
            \/ pc[k] = "Failed" /\ OwnFailure(k)

C17_Witness ==
  /\ batch.state = "returned"
  /\ Len(batch.urls) = 3
  /\ pc[1] = "Failed" /\ err[1].code = FILE_NOT_FOUND
  /\ DoneAndWritten(2) /\ path[2] = P_a
  /\ DoneAndWritten(3) /\ path[3] = P_b

\* C18 (as claimed): the result of executeBatch has one entry per address, in
\* the order of the input: entry k is the outcome of address k when its run
\* is Done, and reports the error of address k when its run has failed.
C18_OneEntryPerAddress ==
  batch.state = "returned"
    => /\ Len(batch.results) = Len(batch.urls)
       /\ \A k \in 1..Len(batch.urls) :
            /\ pc[k] = "Done" => batch.results[k] = result[k]
            /\ pc[k] = "Failed"
                 => /\ "code" \in DOMAIN batch.results[k]
                    /\ batch.results[k].code = err[k].code

\* the documents of the inputs whose body is empty or white space only
BlankDocs == {DocB, DocE, Empty, Blank}
PastTranslation(k) == pc[k] \in {"Applying", "ApplyingData", "Pruning", "PruningFiles", "Done"}

\* C19: for a document whose body is empty or white space only, with or
\* without a metadata block, translateContent makes no call of
\* messages.create and returns its input: in the pipeline the translated
\* content is the content read, and in translateBatch the call is fulfilled
\* at once with its content, which is also its entry of the result.
C19_BlankUnchanged ==
  /\ \A k \in DOMAIN pc :
       (originalContent[k] \in BlankDocs /\ pc[k] \notin {"Reading", "BackingUp"})
         => /\ pc[k] # "AwaitApi"
            /\ OpsBy(k, "translateContent") = {}
            /\ PastTranslation(k) => translatedContent[k] = originalContent[k]
            /\ pc[k] = "Failed" => err[k].code # TRANSLATION_FAILED
  /\ \A j \in DOMAIN tb.calls :
       (tb.contents[j] \in BlankDocs /\ CallStarted(j))
         => /\ tb.calls[j].status = "fulfilled"
            /\ tb.calls[j].value = tb.contents[j]
            /\ tb.calls[j].response = NoResponse
            /\ j <= Len(tb.results) => tb.results[j] = tb.contents[j]

C19_Witness ==
  /\ tb.state = "returned"
  /\ {tb.contents[j] : j \in DOMAIN tb.contents} = BlankDocs
  /\ tb.results = tb.contents

\* the text of the first text-typed segment of a response, the original body
\* when it has none
TextSegments(content) == {i \in DOMAIN content : content[i].type = "text"}
FirstTextOr(content, bodyContent) ==
  IF TextSegments(content) = {} THEN bodyContent
  ELSE content[CHOOSE i \in TextSegments(content) :
                 \A i2 \in TextSegments(content) : i <= i2].text

\* C20 (as claimed): when messages.create has answered a call of
\* translateContent on a document with a body, the call is fulfilled and the
\* body of the document it returns is the text of the first text-typed
\* segment of the response, wherever it sits, or the original body when the
\* response has no text segment.
C20_FirstTextSegment ==
  \A j \in DOMAIN tb.calls :
    (CallSettled(j) /\ tb.contents[j] \notin BlankDocs /\ ~tb.calls[j].response.error)
      => /\ tb.calls[j].status = "fulfilled"
         /\ matter(tb.calls[j].value).content
              = newline(FirstTextOr(tb.calls[j].response.content,
                                    matter(tb.contents[j]).content))

\* the code regions of a body, and the payload translateContent sends for
\* call j of translateBatch (line 34)
CodeRegions(body) == {i \in DOMAIN body : body[i] = Code}
Payload(j) == createTranslationPrompt(matter(tb.contents[j]).content, tb.targetLanguage)

\* C21 (as claimed): for a non-blank body, the payload sent to
\* messages.create holds none of the code regions of the body, and a
\* fulfilled call returns a document in which every code region of the input
\* is present, whatever messages.create has answered.
C21_CodeGuarded ==
  \A j \in DOMAIN tb.calls :
    (CallStarted(j) /\ tb.contents[j] \notin BlankDocs)
      => /\ Code \notin Range(Payload(j))
         /\ tb.calls[j].status = "fulfilled"
              => \A i \in CodeRegions(matter(tb.contents[j]).content) :
                   Code \in Range(matter(tb.calls[j].value).content)

\* C22 (as claimed): restoreCodeBlocks applied to what protectCodeBlocks
\* returned for a body gives back that body, whatever the body holds, and the
\* placeholders of the call are pairwise distinct.
C22_GuardRoundTrip ==
  /\ guard.state = "restored" => guard.restored = guard.body
  /\ \A i, j \in DOMAIN guard.placeholders :
       i # j => guard.placeholders[i][1] # guard.placeholders[j][1]

\* the front matter the claim expects: the input's, with translated set anew
ExpectedFrontmatter(data, now, targetLanguage) ==
  [x \in (DOMAIN data) \cup {"translated"} |->
     IF x = "translated"
       THEN [date |-> toISOString(now), target_language |-> targetLanguage, model |-> Model]
       ELSE data[x]]

\* C23 (as claimed): a fulfilled translation of a document with a non-blank
\* body has the front matter of the input with the one key translated set to
\* the new record of date, target language and model.
C23_FrontmatterFrame ==
  \A j \in DOMAIN tb.calls :
    (tb.calls[j].status = "fulfilled" /\ tb.contents[j] \notin BlankDocs)
      => matter(tb.calls[j].value).data
           = ExpectedFrontmatter(matter(tb.contents[j]).data, clock, tb.targetLanguage)

\* the error kinds the protocol reports as malformed input
ValidationClass == {INVALID_URL, VAULT_MISMATCH, INVALID_PATH, FILE_NOT_FOUND}

\* C27 (as claimed): the error of a failed run is mapped to InvalidParams
\* when its kind is INVALID_OBSIDIAN_URL, VAULT_MISMATCH, INVALID_PATH or
\* FILE_NOT_FOUND, and to InternalError for every other kind.
C27_ErrorMapping ==
  \A r \in DOMAIN pc :
    pc[r] = "Failed"
      => mapErrorCode(err[r])
           = IF err[r].code \in ValidationClass THEN InvalidParams ELSE InternalError

\* p is the root directory or lies under it
UnderRoot(p) == p = vaultPath \/ IsPrefix(vaultPath \o <<"/">>, p)
\* the paths whose file the run has created, changed or removed
ChangedBy(r) ==
  {p \in (DOMAIN fs) \cup (DOMAIN pre[r]) : ContentAt(fs, p) # ContentAt(pre[r], p)}

\* C25 (as claimed): every path a run hands to a filesystem call, and every
\* file it has created, changed or removed, lies under the root directory,
\* whatever path the caller has supplied.
C25_SandboxConfinement ==
  \A r \in DOMAIN pc :
    /\ \A i \in DOMAIN ops[r] : ops[r][i].op # "messages.create" => UnderRoot(ops[r][i].path)
    /\ \A p \in ChangedBy(r) : UnderRoot(p)

IsUpdate(r) == note[r].op = "update"
NoteTarget(r) == getAbsolutePath(note[r].path)
NoteBackup(r) == getAbsolutePath(backupInfo[r].backupPath)

\* C26: an updateNote that has touched the note with createBackup true or
\* absent has before that returned from createBackup, and the backup file is
\* a new file holding the content the note had; with createBackup false no
\* file is created and createBackup is never called; when the note does not
\* exist nothing on disk changes and the call can only fail, with
\* FILE_NOT_FOUND.
C26_UpdateBackup ==
  \A r \in DOMAIN pc :
    IsUpdate(r) =>
      /\ (CreateBackupOf(note[r]) /\ NoteTarget(r) \in ChangedBy(r))
           => /\ backupInfo[r] # NoBackup
              /\ NoteBackup(r) \notin DOMAIN pre[r]
              /\ ContentAt(fs, NoteBackup(r)) = ContentAt(pre[r], NoteTarget(r))
      /\ ~CreateBackupOf(note[r])
           => /\ DOMAIN fs = DOMAIN pre[r]
              /\ OpsBy(r, "createBackup") = {}
      /\ NoteTarget(r) \notin DOMAIN pre[r]
           => /\ fs = pre[r]
              /\ pc[r] \in {"UpdateLocating", "Failed"}
              /\ pc[r] = "Failed" => err[r].code = FILE_NOT_FOUND

\* an update with a backup has returned: the note is changed, the backup
\* holds what it was
C26_Witness ==
  \E r \in DOMAIN pc :
    /\ IsUpdate(r) /\ pc[r] = "Done" /\ note[r].createBackup = ""
    /\ NoteTarget(r) \in ChangedBy(r)
    /\ ContentAt(fs, NoteBackup(r)) = <<"file", DocA>>

\* C28 (as claimed): when a file exists at the path createNote would write
\* (the argument, with '.md' added when it lacks it), the call does not
\* succeed and the file keeps its content.
C28_CreateNeverOverwrites ==
  \A r \in DOMAIN pc :
    (note[r].op = "create" /\ getAbsolutePath(WithMd(note[r].path)) \in DOMAIN pre[r])
      => /\ pc[r] # "Done"
         /\ getAbsolutePath(WithMd(note[r].path)) \notin ChangedBy(r)

\* C29 (as claimed): a file that pruning has unlinked is a file of the pruned
\* directory that createBackup has produced; it is never a directory, never a
\* file of another directory and never the note the caller has addressed,
\* whatever its name and age.
C29_PrunesOnlyBackups ==
  \A r \in DOMAIN pc :
    \A i \in OpsBy(r, "cleanupOldBackups") :
      (ops[r][i].op = "unlink" /\ ops[r][i].ok)
        => /\ dirname(ops[r][i].path) = PruneDir(r)
           /\ \/ IsFile(pre[r], ops[r][i].path)
              \/ ops[r][i].path = getAbsolutePath(backupInfo[r].backupPath)
           /\ ops[r][i].path # Target(r)

\* C24: two calls of execute for different notes, taking their steps in any
\* order, each end as the call alone ends on that disk: a call fails only on
\* its own answer, and a call that is done has returned the content its note
\* had and has left its own translation in the note.
DistinctNotes == path["r1"] # <<>> /\ path["r2"] # <<>> /\ path["r1"] # path["r2"]

AloneOutcome(r) ==
  /\ pc[r] = "Failed" => err[r].code = "TRANSLATION_FAILED"
  /\ pc[r] = "Done" =>
       /\ result[r].originalContent = ConcFs[Target(r)].content
       /\ ContentAt(fs, Target(r)) = <<"file", result[r].translatedContent>>

C24_DistinctNotesIndependent ==
  DistinctNotes => \A r \in ConcRuns : AloneOutcome(r)

\* C30: once every call of execute has ended, the backup file of a call that
\* is done, if it is on disk, holds the originalContent of that call's outcome,
\* also when the call took its steps among those of another call for the
\* same note.
C30_BackupIsOriginal ==
  \A r \in DOMAIN pc :
    (/\ \A o \in DOMAIN pc : pc[o] \in {"Done", "Failed"}
     /\ pc[r] = "Done"
     /\ IsFile(fs, getAbsolutePath(result[r].backupPath)))
      => fs[getAbsolutePath(result[r].backupPath)].content = result[r].originalContent

\* C31: any two calls of createBackup that have returned have returned
\* different backupPaths, whatever the order of their steps and whatever the
\* clock read at each, so that no backup is written over by a later one.
C31_BackupPathsDistinct ==
  \A r \in DOMAIN pc : \A o \in DOMAIN pc :
    (r # o /\ backupInfo[r] # NoBackup /\ backupInfo[o] # NoBackup)
      => backupInfo[r].backupPath # backupInfo[o].backupPath

\* C32: translateBatch returns as many entries as it was given contents, and
\* entry k is what translateContent made of contents[k] when call k was
\* fulfilled and contents[k] itself when call k was rejected, wherever in the
\* chunks the rejected calls are.
TranslationOf(k) ==
  IF IsBlank(matter(tb.contents[k]).content)
    THEN tb.contents[k]
    ELSE ComposeTranslation(tb.contents[k], tb.calls[k].response.content, clock,
                            tb.targetLanguage)

C32_EntryPerIndex ==
  tb.state = "returned" =>
    /\ Len(tb.results) = Len(tb.contents)
    /\ \A k \in DOMAIN tb.contents :
         tb.results[k] = IF tb.calls[k].status = "fulfilled"
                           THEN TranslationOf(k)
                           ELSE tb.contents[k]

\* the first call of the second chunk was rejected, its content is not the
\* first content of the list, and a call of the first chunk was fulfilled
\* with a translation
C32_Witness ==
  /\ tb.state = "returned"
  /\ Len(tb.contents) > batchSize
  /\ tb.calls[batchSize + 1].status = "rejected"
  /\ tb.results[batchSize + 1] = tb.contents[batchSize + 1]
  /\ tb.contents[batchSize + 1] # tb.contents[1]
  /\ \E k \in 1..batchSize :
       /\ tb.calls[k].status = "fulfilled"
       /\ tb.calls[k].response # NoResponse
       /\ tb.results[k] # tb.contents[k]

====
